---- MODULE Spec2Model ----
(***************************************************************************)
(* Model of item_backup_item: the disk-space ledger (DiskSpaceManager),    *)
(* the per-item pipeline (SingleFileProcessor), the upload queue           *)
(* (AsyncUploadService), the coordinator (FileProcessorCoordinator) and    *)
(* the recovery sweep (ErrorRecoveryManager).                              *)
(*                                                                         *)
(* Sizes are bytes, times are seconds.  The specifications share the       *)
(* variables:                                                              *)
(*   SpecLedger      client threads calling reserve_space and              *)
(*                   release_reservation                                   *)
(*   Spec            the coordinator's pull loop, the pipeline stages,     *)
(*                   upload workers and the success callback (cleanup)     *)
(*   SpecUpload      AsyncUploadService with a caller of submit_upload and *)
(*                   of wait_for_completion                                *)
(*   FairSpecUpload  the service of SpecUpload with fair workers           *)
(*   SpecRecovery    ErrorRecoveryManager: record_error, the stored        *)
(*                   ErrorRecords and the periodic sweep                   *)
(*   SpecResolve     the sweep next to a pull loop that completes the      *)
(*                   items the sweep has reset                             *)
(*   SpecZombie      the sweep next to items resting in a pipeline stage   *)
(*   SpecDispatch    the sweep over ErrorRecords that are due              *)
(*   SpecCallback    the upload service built with callbacks that may      *)
(*                   raise                                                 *)
(*   SpecQueue       the upload service with callers of submit_upload that *)
(*                   pass a priority and of get_pending_tasks              *)
(*   SpecWait        a caller of wait_for_space on a changing volume       *)
(*   SpecStage       one stage method and its collaborator's calls         *)
(*   SpecControl     run_full_cycle, its upload workers and a controller   *)
(*                   calling pause, resume and stop                        *)
(*   SpecRetry       one call of ErrorHandler.execute_with_retry           *)
(*   SpecUnzip       process_file calls side by side, each through the     *)
(*                   reservation of its UNZIP stage                        *)
(***************************************************************************)
EXTENDS Integers, Sequences, FiniteSets, TLC

VARIABLES
    reservations,     \* DiskSpaceManager._reservations: path -> reserved bytes (0 = no entry)
    base_used,        \* bytes used on the volume by data that is not an artifact of an item
    max_disk_usage,   \* DiskSpaceConfig.max_disk_usage_bytes, the configured usage threshold
    tpc,              \* SpecLedger: position of each client thread inside reserve_space
    snap,             \* SpecLedger: what reserve_space read before taking the lock
    held,             \* SpecLedger: the SpaceReservation object each client thread holds
    items,            \* the classified items: classify_result and item_size of each record
    db,               \* ItemProcessRecord rows: the persisted fields the pipeline writes
    fs,               \* which local artifacts of each item exist on disk
    cpc,              \* position of the coordinator thread (run_full_cycle / process_file)
    pending,          \* pending_files still to be iterated by _process_files
    ctx,              \* ProcessingContext of the running process_file call
    res_objs,         \* the SpaceReservation objects each item's process_file call created
    hist,             \* per item: stages entered, failing stage, returned ProcessResult
    tasks,            \* every UploadTask created by submit_upload, in creation order
    upload_queue,     \* AsyncUploadService.upload_queue (task ids, FIFO)
    retry_queue,      \* AsyncUploadService.retry_queue (task ids, FIFO)
    running_tasks,    \* AsyncUploadService.running_tasks: item_id -> task id (0 = no entry)
    wpc,              \* position of each upload worker
    wtask,            \* the task each upload worker has taken (0 = none)
    shutdown,         \* AsyncUploadService._shutdown_event
    sub,              \* SpecUpload: the task a submit_upload caller is blocked with in put (0 = none)
    wfc,              \* SpecUpload: the caller of wait_for_completion
    error_records,    \* ErrorRecoveryManager.error_records: file_id -> ErrorRecord (None = no entry)
    now,              \* SpecRecovery: datetime.now(), in seconds
    recovery,         \* SpecRecovery: is_running and the time the sleeping recovery loop wakes;
                      \* SpecDispatch: also how the last notification of a sweep ended
    rhist,            \* SpecRecovery: per file, what happened to its current ErrorRecord
    wfs,              \* SpecWait: the caller of wait_for_space
    ctl,              \* SpecControl: _is_running, _pause_event, whether stop() was called,
                      \* and the records started since the last pause()
    scall,            \* SpecStage: one call of a stage method and the calls it made
    callback          \* AsyncUploadService.callback: whether its callables may raise

ledgerVars == <<reservations, base_used, max_disk_usage>>
threadVars == <<tpc, snap, held>>
pipeVars == <<items, db, fs, cpc, pending, ctx, res_objs, hist>>
uploadVars == <<tasks, upload_queue, retry_queue, running_tasks, wpc, wtask, shutdown>>
clientVars == <<sub, wfc>>
recoveryVars == <<error_records, now, recovery, rhist>>
extraVars == <<wfs, ctl, scall, callback>>
otherVars == <<clientVars, recoveryVars, extraVars>>

-----------------------------------------------------------------------------
(* Bounds of the model *)

DiskTotal == 48          \* total_bytes reported by shutil.disk_usage
NumThreads == 2          \* client threads of the ledger in SpecLedger
MaxReleaseCalls == 3     \* release_reservation calls followed per reservation
NumItems == 1            \* records the classification stored
MaxTasks == 2            \* submit_upload calls followed in SpecUpload
max_queue_size == 1      \* AsyncUploadService(max_queue_size=1000), scaled down
reserved_space_bytes == 4  \* DiskSpaceConfig.reserved_space_gb (5 GB), scaled down
max_wait_time_seconds == 3 \* DiskSpaceConfig.max_wait_time_seconds (3600 s), scaled down
MaxWaitClock == 5        \* seconds a wait_for_space call is followed
NumRecords == 2          \* rows of the table in the specification of pause and stop
NumDue == 2              \* ErrorRecords that are due in the specification of the dispatch
zombie_cutoff == 600     \* _cleanup_zombie_files: timedelta(hours=24), scaled down
MaxCalls == 4            \* collaborator calls whose outcome is drawn for one stage
NumFiles == 1            \* file ids the recovery manager is told about in SpecRecovery
TimeStep == 300          \* seconds by which the clock of SpecRecovery advances
MaxTime == 1200          \* seconds the clock of SpecRecovery runs

(* Program constants *)

safety_margin_percent == 10
SpaceManagementEnabled == TRUE
upload_max_retries == 5      \* UploadTask.max_retries
stage_max_retries == 3       \* SingleFileProcessor.max_retries
upload_workers == 2          \* CoordinatorConfig.upload_workers
recovery_interval == 300     \* ErrorRecoveryManager.recovery_interval, seconds
check_interval == 1          \* wait_for_space(check_interval=1.0), seconds

Paths == {"zipped_folder", "unzip_folder"}
Threads == 1..NumThreads
ReqSizes == {6, 16}
BaseUsedChoices == {0, 24}
ThresholdChoices == {32, DiskTotal}
Items == 1..NumItems
Workers == 1..upload_workers
ItemSizes == {4}
Kinds == {"normal_file", "normal_folder", "zip_file"}
Compressible == {"normal_file", "normal_folder"}
None == [none |-> TRUE]

-----------------------------------------------------------------------------
(* DiskSpaceConfig *)

get_required_space_with_margin(required_bytes) ==
    required_bytes + ((required_bytes * safety_margin_percent) \div 100)

(* DiskSpaceManager *)

RECURSIVE SumOver(_, _)
SumOver(S, f) ==
    IF S = {} THEN 0
    ELSE LET x == CHOOSE y \in S : TRUE IN f[x] + SumOver(S \ {x}, f)

\* bytes the artifacts of item i occupy on the volume
ArtifactBytes(i) ==
    (IF fs[i].source THEN items[i].item_size ELSE 0)
    + (IF fs[i].zip THEN db[i].zipped_size ELSE 0)
    + (IF fs[i].unzip THEN items[i].item_size ELSE 0)

\* shutil.disk_usage(...).used
ActualUsed == base_used + SumOver(DOMAIN fs, [i \in DOMAIN fs |-> ArtifactBytes(i)])

\* check_space_status: the DiskSpaceInfo it returns (used = effective used)
check_space_status(path) ==
    LET effective_used == ActualUsed + reservations[path]
    IN  [total_bytes |-> DiskTotal,
         used_bytes  |-> effective_used,
         free_bytes  |-> DiskTotal - effective_used]

\* DiskSpaceConfig.effective_threshold_bytes
effective_threshold_bytes == max_disk_usage - reserved_space_bytes

\* check_space_status: the SpaceStatus it returns; disk_ok = FALSE is
\* get_disk_space returning None
space_status(path, disk_ok) ==
    LET effective_free == check_space_status(path).free_bytes
    IN  IF ~disk_ok THEN "unavailable"
        ELSE IF effective_free >= effective_threshold_bytes THEN "sufficient"
        ELSE IF effective_free >= reserved_space_bytes THEN "warning"
        ELSE "critical"

\* an admission test that does not look at the outcome of the disk query
can_process_file_unchecked(required_bytes, path, disk_ok) ==
    check_space_status(path).free_bytes >= get_required_space_with_margin(required_bytes)

\* can_process_file: disk_ok = FALSE is get_disk_space returning None
can_process_file(required_bytes, path, disk_ok) ==
    /\ disk_ok
    /\ check_space_status(path).free_bytes >= get_required_space_with_margin(required_bytes)

\* the re-check reserve_space makes inside _reservation_lock
commit_allowed(space_info, current_reserved, bytes) ==
    LET effective_free == space_info.total_bytes - (space_info.used_bytes + current_reserved)
    IN  effective_free >= get_required_space_with_margin(bytes)

Max(a, b) == IF a >= b THEN a ELSE b

\* release_space: the ledger after releasing bytes on path (floored at zero)
release_space(ledger, path, bytes) ==
    [ledger EXCEPT ![path] = Max(0, ledger[path] - bytes)]

-----------------------------------------------------------------------------
(* SpecLedger: concurrent clients of the ledger *)

InitLedgerVars ==
    /\ reservations = [p \in Paths |-> 0]
    /\ base_used \in BaseUsedChoices
    /\ max_disk_usage \in ThresholdChoices

\* no caller of submit_upload or wait_for_completion
NoClient ==
    /\ sub = 0
    /\ wfc = [pc |-> "idle"]

\* no caller of wait_for_space, the coordinator as constructed, no stage call
NoExtra ==
    /\ wfs = [pc |-> "idle"]
    /\ ctl = [is_running |-> FALSE, pause_event |-> TRUE, stop_called |-> FALSE,
             paused_starts |-> 0]
    /\ scall = None
    /\ callback = [may_raise |-> FALSE]

\* no ErrorRecoveryManager
NoRecovery ==
    /\ error_records = << >>
    /\ now = 0
    /\ recovery = [is_running |-> FALSE, wake |-> 0, notified |-> "untracked"]
    /\ rhist = << >>

\* SpecLedger has no items and no upload service
NoPipeline ==
    /\ items = << >>
    /\ db = << >>
    /\ fs = << >>
    /\ cpc = "off"
    /\ pending = << >>
    /\ ctx = None
    /\ res_objs = << >>
    /\ hist = << >>
    /\ tasks = << >>
    /\ upload_queue = << >>
    /\ retry_queue = << >>
    /\ running_tasks = << >>
    /\ wpc = << >>
    /\ wtask = << >>
    /\ shutdown = TRUE

InitLedger ==
    /\ InitLedgerVars
    /\ tpc = [t \in Threads |-> "idle"]
    /\ snap = [t \in Threads |-> None]
    /\ held = [t \in Threads |-> None]
    /\ NoPipeline
    /\ NoClient
    /\ NoExtra
    /\ NoRecovery

\* reserve_space up to the lock: the unlocked can_process_file call
ReserveSpaceCheck(t) ==
    /\ tpc[t] = "idle"
    /\ held[t] = None
    /\ \E path \in Paths, bytes \in ReqSizes, disk_ok \in BOOLEAN :
         LET ok == can_process_file(bytes, path, disk_ok)
             space_info == check_space_status(path)
         IN  /\ snap' = [snap EXCEPT ![t] =
                            [path |-> path, bytes |-> bytes, admitted |-> ok,
                             disk_ok |-> disk_ok,
                             status |-> space_status(path, disk_ok),
                             used_bytes |-> space_info.used_bytes,
                             total_bytes |-> space_info.total_bytes]]
             /\ tpc' = [tpc EXCEPT ![t] = "checked"]
    /\ UNCHANGED <<ledgerVars, held, pipeVars, uploadVars>>
    /\ UNCHANGED otherVars

\* reserve_space after the check: return None, or commit under the lock
ReserveSpaceCommit(t) ==
    /\ tpc[t] = "checked"
    /\ LET s == snap[t]
           current_reserved == reservations[s.path]
       IN  IF ~SpaceManagementEnabled
           THEN /\ held' = [held EXCEPT ![t] =
                      [path |-> s.path, reserved_bytes |-> s.bytes,
                       released |-> FALSE, calls |-> 0]]
                /\ UNCHANGED reservations
           ELSE IF s.admitted /\ commit_allowed(s, current_reserved, s.bytes)
           THEN /\ reservations' = [reservations EXCEPT ![s.path] = current_reserved + s.bytes]
                /\ held' = [held EXCEPT ![t] =
                      [path |-> s.path, reserved_bytes |-> s.bytes,
                       released |-> FALSE, calls |-> 0]]
           ELSE UNCHANGED <<reservations, held>>
    /\ tpc' = [tpc EXCEPT ![t] = "idle"]
    /\ snap' = [snap EXCEPT ![t] = None]
    /\ UNCHANGED <<base_used, max_disk_usage, pipeVars, uploadVars>>
    /\ UNCHANGED otherVars

\* release_reservation without the test of the released flag
ReleaseReservationNoFlag(t) ==
    /\ tpc[t] = "idle"
    /\ held[t] # None
    /\ held[t].calls < MaxReleaseCalls
    /\ reservations' = release_space(reservations, held[t].path, held[t].reserved_bytes)
    /\ held' = [held EXCEPT ![t].released = TRUE, ![t].calls = @ + 1]
    /\ UNCHANGED <<tpc, snap, base_used, max_disk_usage, pipeVars, uploadVars>>
    /\ UNCHANGED otherVars

\* release_reservation(reservation) on the reservation the thread holds
ReleaseReservation(t) ==
    /\ tpc[t] = "idle"
    /\ held[t] # None
    /\ held[t].calls < MaxReleaseCalls
    /\ IF held[t].released
       THEN /\ UNCHANGED reservations
            /\ held' = [held EXCEPT ![t].calls = @ + 1]
       ELSE /\ reservations' = release_space(reservations, held[t].path, held[t].reserved_bytes)
            /\ held' = [held EXCEPT ![t].released = TRUE, ![t].calls = @ + 1]
    /\ UNCHANGED <<tpc, snap, base_used, max_disk_usage, pipeVars, uploadVars>>
    /\ UNCHANGED otherVars

\* the client drops a released reservation object
DropReservation(t) ==
    /\ tpc[t] = "idle"
    /\ held[t] # None
    /\ held[t].released
    /\ held' = [held EXCEPT ![t] = None]
    /\ UNCHANGED <<tpc, snap, ledgerVars, pipeVars, uploadVars>>
    /\ UNCHANGED otherVars

NextLedger ==
    \E t \in Threads :
        \/ ReserveSpaceCheck(t)
        \/ ReserveSpaceCommit(t)
        \/ ReleaseReservation(t)
        \/ DropReservation(t)

-----------------------------------------------------------------------------
(* Spec: the coordinator, the pipeline and the upload service *)

Stages == <<"classify", "hash", "zip", "zip_hash", "unzip", "unzip_hash",
            "upload_queue", "uploaded", "deleted">>

\* ProcessStage a persisted process_status value belongs to
StageOfStatus(status) ==
    CASE status \in {"classify"} -> "classify"
      [] status \in {"hash", "hashed"} -> "hash"
      [] status \in {"zip", "zipped"} -> "zip"
      [] status \in {"zip_hash", "zip_file_hashed"} -> "zip_hash"
      [] status \in {"unzip", "unzipped"} -> "unzip"
      [] status \in {"unzip_hash", "unzip_hashed"} -> "unzip_hash"
      [] status \in {"upload", "upload_queue"} -> "upload_queue"
      [] status \in {"uploaded"} -> "uploaded"
      [] status \in {"delete"} -> "deleted"

StageRank(stage) == CHOOSE k \in 1..Len(Stages) : Stages[k] = stage

\* SingleFileProcessor._calculate_required_space
calculate_required_space(stage, source_size) ==
    CASE stage = "hash" -> source_size
      [] stage \in {"zip", "zip_hash"} -> source_size + (source_size \div 2)
      [] stage \in {"unzip", "unzip_hash"} -> source_size + (source_size \div 2) + source_size
      [] OTHER -> source_size

\* size of the archive of a source of the given size
ZipSizes(source_size) == {source_size \div 2}

InitPipeline ==
    /\ reservations = [p \in Paths |-> 0]
    /\ base_used \in BaseUsedChoices
    /\ max_disk_usage = DiskTotal
    /\ tpc = << >>
    /\ snap = << >>
    /\ held = << >>
    /\ items \in [Items -> [classify_result : Kinds, item_size : ItemSizes]]
    /\ db = [i \in Items |->
               [process_status |-> "classify", status_result |-> "success",
                md5 |-> "none", zipped_path |-> FALSE, zipped_size |-> 0,
                unzip_path |-> FALSE, unzip_md5 |-> "none"]]
    /\ fs = [i \in Items |-> [source |-> TRUE, zip |-> FALSE, unzip |-> FALSE]]
    /\ cpc = "start"
    /\ pending = << >>
    /\ ctx = None
    /\ res_objs = [i \in Items |-> [zip |-> None, unzip |-> None]]
    /\ hist = [i \in Items |->
                 [ran |-> << >>, failed_at |-> "none", reason |-> "none",
                  result |-> None, marked |-> FALSE, handled |-> FALSE]]
    /\ tasks = << >>
    /\ upload_queue = << >>
    /\ retry_queue = << >>
    /\ running_tasks = [i \in Items |-> 0]
    /\ wpc = [w \in Workers |-> "off"]
    /\ wtask = [w \in Workers |-> 0]
    /\ shutdown = FALSE
    /\ NoClient
    /\ NoExtra
    /\ NoRecovery

\* FileProcessorCoordinator.start, from run_full_cycle
Start ==
    /\ cpc = "start"
    /\ cpc' = "pull"
    /\ wpc' = [w \in Workers |-> "idle"]
    /\ shutdown' = FALSE
    /\ UNCHANGED <<ledgerVars, threadVars, items, db, fs, pending, ctx, res_objs, hist,
                   tasks, upload_queue, retry_queue, running_tasks, wtask>>
    /\ UNCHANGED otherVars

\* records in id order
RECURSIVE SortedSeq(_)
SortedSeq(S) ==
    IF S = {} THEN << >>
    ELSE LET m == CHOOSE x \in S : \A y \in S : x <= y
         IN  <<m>> \o SortedSeq(S \ {m})

\* _get_pending_files
get_pending_files ==
    SortedSeq({i \in Items : /\ db[i].process_status = "classify"
                             /\ db[i].status_result # "failure"})

\* _process_files: one pass of the while loop up to the for loop
PullPending ==
    /\ cpc = "pull"
    /\ pending' = get_pending_files
    /\ cpc' = IF get_pending_files = << >> THEN "wait_uploads" ELSE "next"
    /\ UNCHANGED <<ledgerVars, threadVars, items, db, fs, ctx, res_objs, hist, uploadVars>>
    /\ UNCHANGED otherVars

\* _create_context
create_context(i) ==
    [item |-> i, current_stage |-> "classify", space_reservation |-> "none",
     zipped_path |-> FALSE, zip_size |-> 0, result |-> None]

\* process_file: the stage a new context starts with
first_stage(classify_result) ==
    IF classify_result \in Compressible THEN "hash"
    ELSE IF classify_result = "zip_file" THEN "zip_file" ELSE "mark"

\* _process_files for loop + _process_single_file up to process_file
NextRecord ==
    /\ cpc = "next"
    /\ IF pending = << >>
       THEN /\ cpc' = "pull"
            /\ UNCHANGED ctx
       ELSE LET i == Head(pending)
                required_space == calculate_required_space("zip", items[i].item_size)
            IN  \E disk_ok \in BOOLEAN :
                  /\ ctx' = create_context(i)
                  /\ cpc' = IF ~SpaceManagementEnabled
                                \/ can_process_file(required_space, "zipped_folder", disk_ok)
                            THEN first_stage(items[i].classify_result)
                            ELSE "wait_space"
    /\ UNCHANGED <<ledgerVars, threadVars, items, db, fs, pending, res_objs, hist, uploadVars>>
    /\ UNCHANGED otherVars

\* wait_for_space: a poll at which admission succeeds
WaitSpaceAdmit ==
    /\ cpc = "wait_space"
    /\ can_process_file(calculate_required_space("zip", items[ctx.item].item_size),
                        "zipped_folder", TRUE)
    /\ cpc' = first_stage(items[ctx.item].classify_result)
    /\ UNCHANGED <<ledgerVars, threadVars, items, db, fs, pending, ctx, res_objs, hist,
                   uploadVars>>
    /\ UNCHANGED otherVars

\* wait_for_space: a failed poll after the timeout; _process_single_file raises
WaitSpaceTimeout ==
    /\ cpc = "wait_space"
    /\ \E disk_ok \in BOOLEAN :
         ~can_process_file(calculate_required_space("zip", items[ctx.item].item_size),
                           "zipped_folder", disk_ok)
    /\ cpc' = "next"
    /\ pending' = Tail(pending)
    /\ ctx' = None
    /\ UNCHANGED <<ledgerVars, threadVars, items, db, fs, res_objs, hist, uploadVars>>
    /\ UNCHANGED otherVars

\* a pipeline that goes on to the next stage whatever the stage returned
after_stage_ignoring_failure(success, next_pc) == next_pc

\* process_file: where control goes after a stage returned its result
after_stage(success, next_pc) == IF success THEN next_pc ELSE "return"

ProcessResult(success, stage, error_message) ==
    [success |-> success, stage |-> stage, error_message |-> error_message]

\* bookkeeping of a stage's outcome in hist
Entered(i, stage, success, reason) ==
    [hist EXCEPT ![i].ran = Append(@, stage),
                 ![i].failed_at = IF ~success /\ @ = "none" THEN stage ELSE @,
                 ![i].reason = IF ~success /\ hist[i].failed_at = "none" THEN reason ELSE @]

\* the context after a stage
ctx_after(stage, success, reason) ==
    [ctx EXCEPT !.current_stage = stage,
                !.result = ProcessResult(success, stage, IF success THEN "none" ELSE reason)]

\* _process_hash_stage
HashStage ==
    /\ cpc = "hash"
    /\ \E failures \in 0..stage_max_retries :
         LET ok == failures < stage_max_retries
             i == ctx.item
         IN  /\ db' = IF ok THEN [db EXCEPT ![i].md5 = "h_src", ![i].process_status = "hashed"]
                      ELSE db
             /\ ctx' = ctx_after("hash", ok, "collaborator_error")
             /\ hist' = Entered(i, "hash", ok, "collaborator_error")
             /\ cpc' = after_stage(ok, "zip")
    /\ UNCHANGED <<ledgerVars, threadVars, items, fs, pending, res_objs, uploadVars>>
    /\ UNCHANGED otherVars

\* reserve_space called by the pipeline thread: both checks against the same reading
reserve_space_ok(path, bytes, disk_ok) ==
    IF ~SpaceManagementEnabled THEN TRUE
    ELSE /\ can_process_file(bytes, path, disk_ok)
         /\ commit_allowed(check_space_status(path), reservations[path], bytes)

SpaceReservation(path, bytes) ==
    [path |-> path, reserved_bytes |-> bytes, released |-> FALSE]

\* _process_zip_stage
ZipStage ==
    /\ cpc = "zip"
    /\ \E disk_ok \in BOOLEAN, failures \in 0..stage_max_retries,
          zsize \in ZipSizes(items[ctx.item].item_size) :
         LET i == ctx.item
             required_space == calculate_required_space("zip", items[i].item_size)
             reserved == reserve_space_ok("zipped_folder", required_space, disk_ok)
             ok == reserved /\ failures < stage_max_retries
             reason == IF reserved THEN "collaborator_error" ELSE "reserve_denied"
         IN  /\ reservations' =
                   IF reserved /\ SpaceManagementEnabled
                   THEN [reservations EXCEPT !["zipped_folder"] = @ + required_space]
                   ELSE reservations
             /\ res_objs' = IF reserved
                            THEN [res_objs EXCEPT ![i].zip =
                                     SpaceReservation("zipped_folder", required_space)]
                            ELSE res_objs
             /\ fs' = IF ok THEN [fs EXCEPT ![i].zip = TRUE] ELSE fs
             /\ db' = IF ok THEN [db EXCEPT ![i].zipped_path = TRUE, ![i].zipped_size = zsize,
                                            ![i].process_status = "zipped"]
                      ELSE db
             /\ ctx' = [ctx_after("zip", ok, reason) EXCEPT
                           !.space_reservation = IF reserved THEN "zip" ELSE "none",
                           !.zipped_path = ok,
                           !.zip_size = IF ok THEN zsize ELSE 0]
             /\ hist' = Entered(i, "zip", ok, reason)
             /\ cpc' = after_stage(ok, "zip_hash")
    /\ UNCHANGED <<base_used, max_disk_usage, threadVars, items, pending, uploadVars>>
    /\ UNCHANGED otherVars

\* _process_zip_hash_stage
ZipHashStage ==
    /\ cpc = "zip_hash"
    /\ \E ok \in BOOLEAN :
         LET i == ctx.item
         IN  /\ db' = IF ok THEN [db EXCEPT ![i].process_status = "zip_file_hashed"] ELSE db
             /\ ctx' = ctx_after("zip_hash", ok, "collaborator_error")
             /\ hist' = Entered(i, "zip_hash", ok, "collaborator_error")
             /\ cpc' = after_stage(ok, "unzip")
    /\ UNCHANGED <<ledgerVars, threadVars, items, fs, pending, res_objs, uploadVars>>
    /\ UNCHANGED otherVars

\* _process_unzip_stage
UnzipStage ==
    /\ cpc = "unzip"
    /\ \E disk_ok \in BOOLEAN, outcome \in {"raise", "size_mismatch", "ok"} :
         LET i == ctx.item
             required_space == calculate_required_space("unzip", items[i].item_size)
             reserved == reserve_space_ok("unzip_folder", required_space, disk_ok)
             ok == reserved /\ outcome = "ok"
             reason == IF ~reserved THEN "reserve_denied"
                       ELSE IF outcome = "size_mismatch" THEN "size_mismatch"
                       ELSE "collaborator_error"
             with_reservation ==
                   IF reserved /\ SpaceManagementEnabled
                   THEN [reservations EXCEPT !["unzip_folder"] = @ + required_space]
                   ELSE reservations
         IN  /\ reservations' =
                   IF ok THEN release_space(with_reservation, "unzip_folder", items[i].item_size)
                   ELSE with_reservation
             /\ res_objs' = IF reserved
                            THEN [res_objs EXCEPT ![i].unzip =
                                     SpaceReservation("unzip_folder", required_space)]
                            ELSE res_objs
             /\ fs' = IF reserved /\ outcome # "raise" THEN [fs EXCEPT ![i].unzip = TRUE] ELSE fs
             /\ db' = IF ok THEN [db EXCEPT ![i].unzip_path = TRUE,
                                            ![i].process_status = "unzipped"]
                      ELSE db
             /\ ctx' = [ctx_after("unzip", ok, reason) EXCEPT
                           !.space_reservation = IF reserved THEN "unzip" ELSE "none"]
             /\ hist' = Entered(i, "unzip", ok, reason)
             /\ cpc' = after_stage(ok, "unzip_hash")
    /\ UNCHANGED <<base_used, max_disk_usage, threadVars, items, pending, uploadVars>>
    /\ UNCHANGED otherVars

\* _process_unzip_hash_stage: whether a stage whose hash was computed succeeded
unzip_hash_success(source_md5, unzip_md5) == TRUE

\* _process_unzip_hash_stage
UnzipHashStage ==
    /\ cpc = "unzip_hash"
    /\ \E outcome \in {"raise", "h_src", "h_other"} :
         LET i == ctx.item
             ok == outcome # "raise" /\ unzip_hash_success(db[i].md5, outcome)
         IN  /\ db' = IF ok THEN [db EXCEPT ![i].unzip_md5 = outcome,
                                            ![i].process_status = "unzip_hashed"]
                      ELSE db
             /\ ctx' = ctx_after("unzip_hash", ok, "collaborator_error")
             /\ hist' = Entered(i, "unzip_hash", ok, "collaborator_error")
             /\ cpc' = after_stage(ok, "mark")
    /\ UNCHANGED <<ledgerVars, threadVars, items, fs, pending, res_objs, uploadVars>>
    /\ UNCHANGED otherVars

\* _process_zip_file_stage
ZipFileStage ==
    /\ cpc = "zip_file"
    /\ \E ok \in BOOLEAN :
         LET i == ctx.item
         IN  /\ db' = IF ok THEN [db EXCEPT ![i].process_status = "zip_file_hashed"] ELSE db
             /\ ctx' = ctx_after("zip_hash", ok, "collaborator_error")
             /\ hist' = Entered(i, "zip_hash", ok, "collaborator_error")
             /\ cpc' = after_stage(ok, "mark")
    /\ UNCHANGED <<ledgerVars, threadVars, items, fs, pending, res_objs, uploadVars>>
    /\ UNCHANGED otherVars

\* _mark_for_upload and the successful ProcessResult
MarkForUpload ==
    /\ cpc = "mark"
    /\ db' = [db EXCEPT ![ctx.item].process_status = "upload"]
    /\ ctx' = [ctx EXCEPT !.current_stage = "upload_queue",
                          !.result = ProcessResult(TRUE, "upload_queue", "none")]
    /\ hist' = [hist EXCEPT ![ctx.item].marked = TRUE]
    /\ cpc' = "return"
    /\ UNCHANGED <<ledgerVars, threadVars, items, fs, pending, res_objs, uploadVars>>
    /\ UNCHANGED otherVars

\* process_file: the finally block, then the return
ReturnResult ==
    /\ cpc = "return"
    /\ LET i == ctx.item
           which == ctx.space_reservation
           r == res_objs[i][which]
       IN  IF which = "none" \/ r.released
           THEN UNCHANGED <<reservations, res_objs>>
           ELSE /\ reservations' = release_space(reservations, r.path, r.reserved_bytes)
                /\ res_objs' = [res_objs EXCEPT ![i][which].released = TRUE]
    /\ hist' = [hist EXCEPT ![ctx.item].result = ctx.result]
    /\ cpc' = "handle"
    /\ UNCHANGED <<base_used, max_disk_usage, threadVars, items, db, fs, pending, ctx,
                   uploadVars>>
    /\ UNCHANGED otherVars

\* UploadTask(item_id, file_path, file_size), with counters of what happened to it
UploadTask(item_id, file_size) ==
    [item_id |-> item_id, file_size |-> file_size, retry_count |-> 0,
     max_retries |-> upload_max_retries, status |-> "pending",
     attempts |-> 0, on_success_calls |-> 0, on_failure_calls |-> 0]

\* _submit_for_upload: whether the result is handed to submit_upload
submits_upload(result_zipped_path, zip_exists) == result_zipped_path /\ zip_exists

\* _process_single_file after process_file returned
HandleResult ==
    /\ cpc = "handle"
    /\ LET i == ctx.item
           result == ctx.result
       IN  /\ IF result.success
              THEN /\ IF submits_upload(ctx.zipped_path, fs[i].zip)
                      THEN /\ tasks' = Append(tasks, UploadTask(i, ctx.zip_size))
                           /\ upload_queue' = Append(upload_queue,
                                                     [priority |-> 0, task |-> Len(tasks) + 1])
                      ELSE UNCHANGED <<tasks, upload_queue>>
                   /\ UNCHANGED db
              ELSE /\ db' = [db EXCEPT ![i].process_status = result.stage,
                                       ![i].status_result = "failure"]
                   /\ UNCHANGED <<tasks, upload_queue>>
           /\ hist' = [hist EXCEPT ![i].handled = TRUE]
    /\ pending' = Tail(pending)
    /\ ctx' = None
    /\ cpc' = "next"
    /\ UNCHANGED <<ledgerVars, threadVars, items, fs, res_objs, retry_queue, running_tasks,
                   wpc, wtask, shutdown>>
    /\ UNCHANGED otherVars

\* get_queue_status as _wait_for_uploads reads it
uploads_drained ==
    /\ Len(upload_queue) = 0
    /\ Len(retry_queue) = 0
    /\ \A i \in DOMAIN running_tasks : running_tasks[i] = 0

\* _wait_for_uploads leaving its loop, then stop()
WaitForUploads ==
    /\ cpc = "wait_uploads"
    /\ uploads_drained
    /\ shutdown' = TRUE
    /\ cpc' = "stopping"
    /\ UNCHANGED <<ledgerVars, threadVars, items, db, fs, pending, ctx, res_objs, hist,
                   tasks, upload_queue, retry_queue, running_tasks, wpc, wtask>>
    /\ UNCHANGED otherVars

\* stop(): executor.shutdown(wait=True) returns once every worker has left its loop
Stopped ==
    /\ cpc = "stopping"
    /\ \A w \in Workers : wpc[w] = "off"
    /\ cpc' = "done"
    /\ UNCHANGED <<ledgerVars, threadVars, items, db, fs, pending, ctx, res_objs, hist,
                   uploadVars>>
    /\ UNCHANGED otherVars

-----------------------------------------------------------------------------
(* AsyncUploadService *)

\* a worker that never looks at the retry queue
WorkerCheckPrimaryOnly(w) ==
    /\ wpc[w] = "idle"
    /\ ~shutdown
    /\ wpc' = [wpc EXCEPT ![w] = "get_primary"]
    /\ UNCHANGED <<ledgerVars, threadVars, pipeVars, tasks, upload_queue, retry_queue,
                   running_tasks, wtask, shutdown>>
    /\ UNCHANGED otherVars

\* _upload_worker: the loop test and the test of retry_queue.empty()
WorkerCheck(w) ==
    /\ wpc[w] = "idle"
    /\ ~shutdown
    /\ wpc' = [wpc EXCEPT ![w] = IF retry_queue # << >> THEN "get_retry" ELSE "get_primary"]
    /\ UNCHANGED <<ledgerVars, threadVars, pipeVars, tasks, upload_queue, retry_queue,
                   running_tasks, wtask, shutdown>>
    /\ UNCHANGED otherVars

\* _upload_worker: retry_queue.get(timeout=0.1); queue.Empty goes back to the loop test
WorkerGetRetry(w) ==
    /\ wpc[w] = "get_retry"
    /\ IF retry_queue # << >>
       THEN /\ wtask' = [wtask EXCEPT ![w] = Head(retry_queue)]
            /\ retry_queue' = Tail(retry_queue)
            /\ wpc' = [wpc EXCEPT ![w] = "got"]
       ELSE /\ wpc' = [wpc EXCEPT ![w] = "idle"]
            /\ UNCHANGED <<wtask, retry_queue>>
    /\ UNCHANGED <<ledgerVars, threadVars, pipeVars, tasks, upload_queue, running_tasks,
                   shutdown>>
    /\ UNCHANGED otherVars

\* _upload_worker: upload_queue.get(timeout=...); queue.Empty goes back to the loop test
WorkerGetPrimary(w) ==
    /\ wpc[w] = "get_primary"
    /\ IF upload_queue # << >>
       THEN /\ wtask' = [wtask EXCEPT ![w] = Head(upload_queue).task]
            /\ upload_queue' = Tail(upload_queue)
            /\ wpc' = [wpc EXCEPT ![w] = "got"]
       ELSE /\ wpc' = [wpc EXCEPT ![w] = "idle"]
            /\ UNCHANGED <<wtask, upload_queue>>
    /\ UNCHANGED <<ledgerVars, threadVars, pipeVars, tasks, retry_queue, running_tasks,
                   shutdown>>
    /\ UNCHANGED otherVars

\* _upload_worker leaving its loop once the shutdown event is set
WorkerExit(w) ==
    /\ wpc[w] = "idle"
    /\ shutdown
    /\ wpc' = [wpc EXCEPT ![w] = "off"]
    /\ UNCHANGED <<ledgerVars, threadVars, pipeVars, tasks, upload_queue, retry_queue,
                   running_tasks, wtask, shutdown>>
    /\ UNCHANGED otherVars

\* _execute_upload up to the try block
ExecuteStart(w) ==
    /\ wpc[w] = "got"
    /\ tasks' = [tasks EXCEPT ![wtask[w]].status = "uploading"]
    /\ running_tasks' = [running_tasks EXCEPT ![tasks[wtask[w]].item_id] = wtask[w]]
    /\ wpc' = [wpc EXCEPT ![w] = "uploading"]
    /\ UNCHANGED <<ledgerVars, threadVars, pipeVars, upload_queue, retry_queue, wtask,
                   shutdown>>
    /\ UNCHANGED otherVars

\* a retry test that grants one retry more
can_retry_inclusive(task) == task.retry_count <= task.max_retries

\* UploadTask.can_retry
can_retry(task) == task.retry_count < task.max_retries

\* a retry that leaves retry_count as it was
increment_retry_keeps_count(task) == [task EXCEPT !.status = "retrying"]

\* UploadTask.increment_retry
increment_retry(task) == [task EXCEPT !.retry_count = @ + 1, !.status = "retrying"]

\* _cleanup_files: the artifacts left on disk
cleanup_fs(i) ==
    [source |-> FALSE,
     zip |-> IF db[i].zipped_path THEN FALSE ELSE fs[i].zip,
     unzip |-> IF db[i].unzip_path /\ fs[i].unzip
               THEN (items[i].classify_result = "normal_file")
               ELSE fs[i].unzip]

\* _cleanup_files: shutil.rmtree(unzip_path) raises when the path is a single file
cleanup_raises(i) ==
    db[i].unzip_path /\ fs[i].unzip /\ items[i].classify_result = "normal_file"

\* the record after _on_upload_success and _update_database_success, in that order
db_after_success(record, cleanup_failed) ==
    LET cleaned == IF cleanup_failed THEN record
                   ELSE [record EXCEPT !.process_status = "delete",
                                       !.status_result = "success"]
    IN  [cleaned EXCEPT !.process_status = "uploaded", !.status_result = "success"]

\* a callback called with no try around it: its exception leaves the call site
callback_unguarded(raised) == raised

\* _execute_upload: each call of on_success, on_retry and on_failure sits in a
\* try of its own whose except branch logs: no exception leaves the call site
callback_propagates(raised) == FALSE

\* whether the callback called by an execution raises: the callbacks the
\* coordinator passes catch their own exceptions, the callbacks of another
\* caller of the service are arbitrary callables
CallbackOutcomes == IF callback.may_raise THEN BOOLEAN ELSE {FALSE}

\* _execute_upload: the try block with its except branch; a callback that
\* raises does so at its end, after its own work
ExecuteUpload(w) ==
    /\ wpc[w] = "uploading"
    /\ \E errno_ok \in BOOLEAN, raised \in CallbackOutcomes :
         LET tid == wtask[w]
             task == tasks[tid]
             i == task.item_id
             uploaded == fs[i].zip /\ errno_ok
             called == IF uploaded THEN [task EXCEPT !.on_success_calls = @ + 1] ELSE task
         IN  /\ IF uploaded /\ ~callback_propagates(raised)
                THEN /\ tasks' = [tasks EXCEPT ![tid] =
                                    [called EXCEPT !.status = "success", !.attempts = @ + 1]]
                     /\ fs' = [fs EXCEPT ![i] = cleanup_fs(i)]
                     /\ reservations' = release_space(reservations, "zipped_folder",
                                                      task.file_size)
                     /\ db' = [db EXCEPT ![i] = db_after_success(db[i], cleanup_raises(i))]
                     /\ UNCHANGED retry_queue
                ELSE IF can_retry(task)
                THEN /\ tasks' = [tasks EXCEPT ![tid] =
                                    [increment_retry(called) EXCEPT !.attempts = @ + 1]]
                     /\ retry_queue' = Append(retry_queue, tid)
                     /\ UNCHANGED <<fs, reservations, db>>
                ELSE /\ tasks' = [tasks EXCEPT ![tid] =
                                    [called EXCEPT !.status = "failed",
                                                   !.attempts = @ + 1,
                                                   !.on_failure_calls = @ + 1]]
                     /\ db' = IF callback_propagates(raised) THEN db
                              ELSE [db EXCEPT ![i].process_status = "upload",
                                              ![i].status_result = "failure"]
                     /\ UNCHANGED <<fs, reservations, retry_queue>>
             /\ wpc' = [wpc EXCEPT ![w] = IF raised THEN "finally_logged" ELSE "finally"]
    /\ UNCHANGED <<base_used, max_disk_usage, threadVars, items, cpc, pending, ctx, res_objs,
                   hist, upload_queue, running_tasks, wtask, shutdown>>
    /\ UNCHANGED otherVars

\* _execute_upload: the finally block ("finally_logged": after a callback's
\* exception was caught and logged)
ExecuteFinally(w) ==
    /\ wpc[w] \in {"finally", "finally_logged"}
    /\ running_tasks' = [running_tasks EXCEPT ![tasks[wtask[w]].item_id] = 0]
    /\ wpc' = [wpc EXCEPT ![w] = "idle"]
    /\ wtask' = [wtask EXCEPT ![w] = 0]
    /\ UNCHANGED <<ledgerVars, threadVars, pipeVars, tasks, upload_queue, retry_queue,
                   shutdown>>
    /\ UNCHANGED otherVars

Next ==
    \/ Start
    \/ PullPending
    \/ NextRecord
    \/ WaitSpaceAdmit
    \/ WaitSpaceTimeout
    \/ HashStage
    \/ ZipStage
    \/ ZipHashStage
    \/ UnzipStage
    \/ UnzipHashStage
    \/ ZipFileStage
    \/ MarkForUpload
    \/ ReturnResult
    \/ HandleResult
    \/ WaitForUploads
    \/ Stopped
    \/ \E w \in Workers :
        \/ WorkerCheck(w)
        \/ WorkerGetRetry(w)
        \/ WorkerGetPrimary(w)
        \/ WorkerExit(w)
        \/ ExecuteStart(w)
        \/ ExecuteUpload(w)
        \/ ExecuteFinally(w)

vars == <<ledgerVars, threadVars, pipeVars, uploadVars, clientVars, recoveryVars, extraVars>>

SpecLedger == InitLedger /\ [][NextLedger]_vars

Spec == InitPipeline /\ [][Next]_vars

-----------------------------------------------------------------------------
(* SpecUpload: the upload service with callers of submit_upload and       *)
(* wait_for_completion; task k uploads the archive of item k               *)

UploadItems == 1..MaxTasks

Terminal(tid) == tasks[tid].status \in {"success", "failed"}

\* the tasks submit_upload has put in the queue
Submitted == {tid \in DOMAIN tasks : tid # sub}

InitUpload ==
    /\ reservations = [p \in Paths |-> 0]
    /\ base_used = 0
    /\ max_disk_usage = DiskTotal
    /\ tpc = << >>
    /\ snap = << >>
    /\ held = << >>
    /\ items = [i \in UploadItems |-> [classify_result |-> "normal_folder", item_size |-> 4]]
    /\ db = [i \in UploadItems |->
               [process_status |-> "upload", status_result |-> "success",
                md5 |-> "h_src", zipped_path |-> TRUE, zipped_size |-> 2,
                unzip_path |-> TRUE, unzip_md5 |-> "h_src"]]
    /\ \E zip_exists \in BOOLEAN :
         fs = [i \in UploadItems |->
                 [source |-> TRUE, zip |-> (i # 1 \/ zip_exists), unzip |-> TRUE]]
    /\ cpc = "off"
    /\ pending = << >>
    /\ ctx = None
    /\ res_objs = [i \in UploadItems |-> [zip |-> None, unzip |-> None]]
    /\ hist = [i \in UploadItems |->
                 [ran |-> << >>, failed_at |-> "none", reason |-> "none",
                  result |-> None, marked |-> TRUE, handled |-> TRUE]]
    /\ tasks = << >>
    /\ upload_queue = << >>
    /\ retry_queue = << >>
    /\ running_tasks = [i \in UploadItems |-> 0]
    /\ wpc = [w \in Workers |-> "off"]
    /\ wtask = [w \in Workers |-> 0]
    /\ shutdown = FALSE
    /\ NoClient
    /\ NoExtra
    /\ NoRecovery

\* AsyncUploadService.start
ServiceStart ==
    /\ cpc = "off"
    /\ \A w \in Workers : wpc[w] = "off"
    /\ wpc' = [w \in Workers |-> "idle"]
    /\ shutdown' = FALSE
    /\ UNCHANGED <<ledgerVars, threadVars, pipeVars, tasks, upload_queue, retry_queue,
                   running_tasks, wtask, clientVars, recoveryVars, extraVars>>

\* submit_upload: the task is created, then upload_queue.put blocks while the queue is full
SubmitUpload ==
    /\ sub = 0
    /\ Len(tasks) < MaxTasks
    /\ LET tid == Len(tasks) + 1
       IN  /\ tasks' = Append(tasks, UploadTask(tid, db[tid].zipped_size))
           /\ IF Len(upload_queue) < max_queue_size
              THEN /\ upload_queue' = Append(upload_queue, [priority |-> 0, task |-> tid])
                   /\ UNCHANGED sub
              ELSE /\ sub' = tid
                   /\ UNCHANGED upload_queue
    /\ UNCHANGED <<ledgerVars, threadVars, pipeVars, retry_queue, running_tasks, wpc, wtask,
                   shutdown, wfc, recoveryVars, extraVars>>

\* submit_upload: the blocked put goes through once the queue has room, and the call returns
SubmitUnblock ==
    /\ sub # 0
    /\ Len(upload_queue) < max_queue_size
    /\ upload_queue' = Append(upload_queue, [priority |-> 0, task |-> sub])
    /\ sub' = 0
    /\ UNCHANGED <<ledgerVars, threadVars, pipeVars, tasks, retry_queue, running_tasks, wpc,
                   wtask, shutdown, wfc, recoveryVars, extraVars>>

\* wait_for_completion(timeout) is called; has_timeout = FALSE is timeout=None
WaitCall ==
    /\ wfc.pc = "idle"
    /\ \E has_timeout \in BOOLEAN :
         wfc' = [pc |-> "polling", has_timeout |-> has_timeout]
    /\ UNCHANGED <<ledgerVars, threadVars, pipeVars, uploadVars, sub, recoveryVars, extraVars>>

\* wait_for_completion: the test of the two queues and of running_tasks
queue_empty ==
    /\ upload_queue = << >>
    /\ retry_queue = << >>
    /\ \A i \in DOMAIN running_tasks : running_tasks[i] = 0

\* wait_for_completion: a pass of the loop that returns; elapsed is whether
\* time.time() - start_time has reached the timeout at this pass
WaitPoll ==
    /\ wfc.pc = "polling"
    /\ \E elapsed \in BOOLEAN :
         /\ queue_empty \/ (wfc.has_timeout /\ elapsed)
         /\ wfc' = [pc |-> "returned", has_timeout |-> wfc.has_timeout,
                    elapsed |-> elapsed, result |-> queue_empty]
    /\ UNCHANGED <<ledgerVars, threadVars, pipeVars, uploadVars, sub, recoveryVars, extraVars>>

\* the service, its workers and the callers of submit_upload
NextService ==
    \/ ServiceStart
    \/ SubmitUpload
    \/ SubmitUnblock
    \/ \E w \in Workers :
        \/ WorkerCheck(w)
        \/ WorkerGetRetry(w)
        \/ WorkerGetPrimary(w)
        \/ ExecuteStart(w)
        \/ ExecuteUpload(w)
        \/ ExecuteFinally(w)

NextUpload ==
    \/ NextService
    \/ WaitCall
    \/ WaitPoll

SpecUpload == InitUpload /\ [][NextUpload]_vars

\* the next step of worker w in its thread
WorkerStep(w) ==
    \/ WorkerCheck(w)
    \/ WorkerGetRetry(w)
    \/ WorkerGetPrimary(w)
    \/ ExecuteStart(w)
    \/ ExecuteUpload(w)
    \/ ExecuteFinally(w)

\* the worker threads of the executor are scheduled fairly
WorkerFairness == \A w \in Workers : WF_vars(WorkerStep(w))

\* the service without a caller of wait_for_completion, which only reads its state
FairSpecUpload == InitUpload /\ [][NextService]_vars /\ WorkerFairness

-----------------------------------------------------------------------------
(* ErrorRecoveryManager *)

\* the file ids the recovery manager and its table know: the keys of error_records
FileIds == DOMAIN error_records

ErrorType ==
    {"compression_failed", "verification_failed", "upload_failed", "space_insufficient",
     "database_error", "file_not_found", "permission_denied", "network_error",
     "unknown_error"}

Strategy(max_retries, retry_delay, recovery_action) ==
    [max_retries |-> max_retries, retry_delay |-> retry_delay,
     recovery_action |-> recovery_action]

\* ErrorRecoveryManager.retry_strategies: the dictionary and its keys
retry_strategies ==
    [t \in ErrorType \ {"unknown_error"} |->
        CASE t = "compression_failed"  -> Strategy(3, 60, "cleanup_and_retry")
          [] t = "verification_failed" -> Strategy(2, 120, "retry")
          [] t = "upload_failed"       -> Strategy(5, 300, "retry")
          [] t = "space_insufficient"  -> Strategy(10, 600, "wait_and_retry")
          [] t = "database_error"      -> Strategy(3, 30, "retry")
          [] t = "file_not_found"      -> Strategy(1, 0, "skip")
          [] t = "permission_denied"   -> Strategy(1, 0, "manual_intervention")
          [] t = "network_error"       -> Strategy(5, 180, "retry")]

\* an error message, as the set of the keywords of _classify_error it contains
Keywords ==
    {"compress", "zip", "verif", "hash", "upload", "network", "space", "disk",
     "database", "mysql", "not found", "no such file", "permission", "access denied"}

Messages ==
    {{}, {"zip"}, {"hash"}, {"upload"}, {"network"}, {"upload", "network"}, {"disk"},
     {"mysql"}, {"not found"}, {"access denied"}, {"zip", "not found"}}

\* _classify_error
classify_error(error_message) ==
    IF "compress" \in error_message \/ "zip" \in error_message
        THEN "compression_failed"
    ELSE IF "verif" \in error_message \/ "hash" \in error_message
        THEN "verification_failed"
    ELSE IF "upload" \in error_message \/ "network" \in error_message
        THEN (IF "upload" \in error_message THEN "upload_failed" ELSE "network_error")
    ELSE IF "space" \in error_message \/ "disk" \in error_message
        THEN "space_insufficient"
    ELSE IF "database" \in error_message \/ "mysql" \in error_message
        THEN "database_error"
    ELSE IF "not found" \in error_message \/ "no such file" \in error_message
        THEN "file_not_found"
    ELSE IF "permission" \in error_message \/ "access denied" \in error_message
        THEN "permission_denied"
    ELSE "unknown_error"

\* record_error: retry_strategies.get(error_type, retry_strategies[UNKNOWN_ERROR]);
\* the default is looked up before get is called, whatever error_type is
strategy_lookup_raises(error_type) == "unknown_error" \notin DOMAIN retry_strategies

\* ErrorRecord(...) as record_error builds it from a strategy at time t
ErrorRecord(error_type, stage, t) ==
    [error_type |-> error_type, stage |-> stage, retry_count |-> 0,
     max_retries |-> retry_strategies[error_type].max_retries,
     next_retry_time |-> t + retry_strategies[error_type].retry_delay,
     recovery_action |-> retry_strategies[error_type].recovery_action]

\* error types of the records stored in SpecRecovery: one for each recovery action
StoredTypes ==
    {"compression_failed", "verification_failed", "space_insufficient", "file_not_found",
     "permission_denied"}

InitRecovery ==
    /\ error_records = [f \in 1..NumFiles |-> None]
    /\ reservations = [p \in Paths |-> 0]
    /\ base_used = 0
    /\ max_disk_usage = DiskTotal
    /\ tpc = << >>
    /\ snap = << >>
    /\ held = << >>
    /\ items = [f \in FileIds |-> [classify_result |-> "normal_folder", item_size |-> 4]]
    /\ db = [f \in FileIds |->
               [process_status |-> "zip", status_result |-> "failure",
                md5 |-> "h_src", zipped_path |-> TRUE, zipped_size |-> 2,
                unzip_path |-> FALSE, unzip_md5 |-> "none"]]
    /\ fs = [f \in FileIds |-> [source |-> TRUE, zip |-> TRUE, unzip |-> FALSE]]
    /\ cpc = "off"
    /\ pending = << >>
    /\ ctx = None
    /\ res_objs = [f \in FileIds |-> [zip |-> None, unzip |-> None]]
    /\ hist = [f \in FileIds |->
                 [ran |-> <<"hash", "zip">>, failed_at |-> "zip", reason |-> "raise",
                  result |-> None, marked |-> FALSE, handled |-> TRUE]]
    /\ tasks = << >>
    /\ upload_queue = << >>
    /\ retry_queue = << >>
    /\ running_tasks = [f \in FileIds |-> 0]
    /\ wpc = [w \in Workers |-> "off"]
    /\ wtask = [w \in Workers |-> 0]
    /\ shutdown = FALSE
    /\ NoClient
    /\ NoExtra
    /\ now = 0
    /\ recovery = [is_running |-> FALSE, wake |-> 0, notified |-> "untracked"]
    /\ rhist = [f \in FileIds |->
                  [dispatched |-> 0, last |-> None, record_error |-> "none", delay |-> 0]]

recoveryFrame ==
    <<ledgerVars, threadVars, items, cpc, pending, ctx, res_objs, hist, uploadVars, clientVars,
      extraVars>>

\* datetime.now() advances
Tick ==
    /\ now < MaxTime
    /\ now' = now + TimeStep
    /\ UNCHANGED <<recoveryFrame, db, fs, error_records, recovery, rhist>>

\* start_recovery_monitoring: the recovery thread starts with a sweep
StartMonitoring ==
    /\ ~recovery.is_running
    /\ recovery' = [recovery EXCEPT !.is_running = TRUE, !.wake = now]
    /\ UNCHANGED <<recoveryFrame, db, fs, error_records, now, rhist>>

\* record_error(file_id, error_message, stage)
RecordError(f) ==
    /\ \E error_message \in Messages :
         LET error_type == classify_error(error_message)
         IN  IF strategy_lookup_raises(error_type)
             THEN /\ rhist' = [rhist EXCEPT ![f].record_error = "raised"]
                  /\ UNCHANGED <<error_records, db>>
             ELSE /\ error_records' =
                        [error_records EXCEPT ![f] = ErrorRecord(error_type, "zip", now)]
                  /\ db' = [db EXCEPT ![f].process_status = "error_" \o error_type]
                  /\ rhist' = [rhist EXCEPT ![f].record_error = "stored",
                                            ![f].dispatched = 0,
                                            ![f].delay = 0,
                                            ![f].last = error_records'[f]]
    /\ UNCHANGED <<recoveryFrame, fs, now, recovery>>

\* error_records[file_id] = ErrorRecord(...): a record built from the strategy of
\* its type, as the end of record_error stores it
PutErrorRecord(f) ==
    /\ \E error_type \in StoredTypes :
         /\ error_records' = [error_records EXCEPT ![f] = ErrorRecord(error_type, "zip", now)]
         /\ rhist' = [rhist EXCEPT ![f].dispatched = 0, ![f].delay = 0,
                                   ![f].last = error_records'[f]]
    /\ db' = [db EXCEPT ![f].process_status = "error_" \o error_records'[f].error_type]
    /\ UNCHANGED <<recoveryFrame, fs, now, recovery>>

budget_left_inclusive(record) == record.retry_count <= record.max_retries

\* record.retry_count < record.max_retries
budget_left(record) == record.retry_count < record.max_retries

is_pending_ignoring_time(record, current_time) == budget_left(record)

\* the test of get_pending_recoveries
is_pending(record, current_time) ==
    budget_left(record) /\ record.next_retry_time <= current_time

\* what a handler leaves: the record object, whether it was deleted from
\* error_records, the process_status written last ("keep": none written) and
\* whether the stage's artifacts were cleaned
Outcome(record, removed, status, cleanup) ==
    [rec |-> record, removed |-> removed, status |-> status, cleanup |-> cleanup]

skip_file(record) == Outcome(record, TRUE, "skipped", FALSE)

request_manual_intervention(record) ==
    Outcome(record, TRUE, "manual_intervention_required", FALSE)

\* record.retry_count += 1, then either a new next_retry_time or _mark_permanent_failure
count_retry(record, t, delay, reset_status, cleanup) ==
    LET counted == [record EXCEPT !.retry_count = @ + 1]
    IN  IF budget_left(counted)
        THEN Outcome([counted EXCEPT !.next_retry_time = t + delay], FALSE,
                     reset_status, cleanup)
        ELSE Outcome(counted, TRUE, "permanent_failure", cleanup)

retry_delay(record) == retry_strategies[record.error_type].retry_delay

cleanup_and_retry(record, t) ==
    count_retry(record, t, retry_delay(record) * (record.retry_count + 1), "classify", TRUE)

retry_file(record, t) ==
    count_retry(record, t, retry_delay(record) * (record.retry_count + 1), "classify", FALSE)

wait_and_retry(record, t) ==
    count_retry(record, t, retry_delay(record) * 2, "keep", FALSE)

\* _attempt_recovery
attempt_recovery(record, t) ==
    CASE record.recovery_action = "skip" -> skip_file(record)
      [] record.recovery_action = "manual_intervention" -> request_manual_intervention(record)
      [] record.recovery_action = "cleanup_and_retry" -> cleanup_and_retry(record, t)
      [] record.recovery_action = "retry" -> retry_file(record, t)
      [] record.recovery_action = "wait_and_retry" -> wait_and_retry(record, t)

\* get_pending_recoveries
get_pending_recoveries ==
    {f \in FileIds : error_records[f] # None /\ is_pending(error_records[f], now)}

\* the columns of ItemProcessRecord that the model reads
Columns ==
    {"id", "process_status", "status_result", "md5", "zipped_path", "zipped_size",
     "unzip_path", "unzip_md5", "update_at"}

\* _cleanup_zombie_files: query_params
zombie_query_params(t) ==
    [process_status |-> {"hashed", "zipped", "zip_hashed", "verified", "uploading"},
     update_at__lt |-> t - zombie_cutoff]

\* create_query_stmt: model.__table__.c[key] raises KeyError for a key that is
\* not a column
create_query_stmt_raises(query_params) == \E key \in DOMAIN query_params : key \notin Columns

\* create_query_stmt and query_data: a set value is matched with in_, any other
\* value with ==
query_data(rows, query_params) ==
    {f \in DOMAIN rows :
        \A key \in DOMAIN query_params :
            IF IsFiniteSet(query_params[key])
            THEN rows[f][key] \in query_params[key]
            ELSE rows[f][key] = query_params[key]}

\* _cleanup_zombie_files: the rows it resets; the except branch only prints
zombie_files(rows, t) ==
    IF create_query_stmt_raises(zombie_query_params(t))
    THEN {}
    ELSE query_data(rows, zombie_query_params(t))

\* a notification whose exception leaves the sender
notification_uncaught(outcome) == outcome = "raised"

\* _send_intervention_notification: whether an exception leaves it; the body is
\* one try block whose except branch prints
notification_propagates(outcome) == FALSE

\* one iteration of _recovery_loop: the pending recoveries, then
\* _cleanup_zombie_files.  An exception that left _request_manual_intervention
\* would be counted by the except branch of _attempt_recovery, whose
\* _mark_permanent_failure raises on the deleted record, which ends the pass
\* with the short sleep.
Sweep ==
    /\ recovery.is_running
    /\ now >= recovery.wake
    /\ \E notify \in {"sent", "failed", "raised"} :
       LET pending_recoveries == get_pending_recoveries
           escalated == {f \in pending_recoveries :
                           error_records[f].recovery_action = "manual_intervention"}
           propagated == escalated # {} /\ notification_propagates(notify)
           out == [f \in pending_recoveries |->
                     IF f \in escalated /\ propagated
                     THEN Outcome(error_records[f], TRUE, "permanent_failure", FALSE)
                     ELSE attempt_recovery(error_records[f], now)]
           recovered_db == [f \in FileIds |->
                              IF f \in pending_recoveries /\ out[f].status # "keep"
                              THEN [db[f] EXCEPT !.process_status = out[f].status]
                              ELSE db[f]]
           recovered_fs == [f \in FileIds |->
                              IF f \in pending_recoveries /\ out[f].cleanup /\ db[f].zipped_path
                              THEN [fs[f] EXCEPT !.zip = FALSE]
                              ELSE fs[f]]
           zombies == zombie_files(recovered_db, now)
       IN  /\ error_records' =
                 [f \in FileIds |->
                    IF f \in pending_recoveries
                    THEN (IF out[f].removed THEN None ELSE out[f].rec)
                    ELSE error_records[f]]
           /\ db' = [f \in FileIds |->
                       IF f \in zombies
                       THEN [recovered_db[f] EXCEPT !.process_status = "classify",
                                                    !.update_at = now]
                       ELSE recovered_db[f]]
           /\ fs' = [f \in FileIds |->
                       IF f \in zombies
                       THEN [source |-> recovered_fs[f].source,
                             zip |-> recovered_fs[f].zip /\ ~recovered_db[f].zipped_path,
                             unzip |-> recovered_fs[f].unzip /\ ~recovered_db[f].unzip_path]
                       ELSE recovered_fs[f]]
           /\ rhist' = [f \in FileIds |->
                          IF f \in pending_recoveries
                          THEN [rhist[f] EXCEPT
                                  !.dispatched = @ + 1, !.last = out[f].rec,
                                  !.delay = IF out[f].removed THEN 0
                                            ELSE out[f].rec.next_retry_time - now]
                          ELSE rhist[f]]
           /\ recovery' = [recovery EXCEPT
                             !.wake = now + (IF propagated THEN 60 ELSE recovery_interval),
                             !.notified = IF recovery.notified = "untracked" THEN @
                                          ELSE IF escalated # {} THEN notify ELSE "none"]
    /\ UNCHANGED <<recoveryFrame, now>>

NextRecovery ==
    \/ Tick
    \/ StartMonitoring
    \/ Sweep
    \/ \E f \in FileIds : RecordError(f)
    \/ \E f \in FileIds : PutErrorRecord(f)

SpecRecovery == InitRecovery /\ [][NextRecovery]_vars

-----------------------------------------------------------------------------
(* SpecResolve: the recovery manager next to a pull loop that completes the
   items the manager has reset *)

\* a classified item whose processing raised before its first stage
\* (_process_single_file: "Timeout waiting for disk space"): the row is still
\* the one the classification wrote
InitResolve ==
    /\ error_records = [f \in 1..NumFiles |-> None]
    /\ reservations = [p \in Paths |-> 0]
    /\ base_used = 0
    /\ max_disk_usage = DiskTotal
    /\ tpc = << >>
    /\ snap = << >>
    /\ held = << >>
    /\ items = [f \in FileIds |-> [classify_result |-> "normal_folder", item_size |-> 4]]
    /\ db = [f \in FileIds |->
               [process_status |-> "classify", status_result |-> "success",
                md5 |-> "none", zipped_path |-> FALSE, zipped_size |-> 0,
                unzip_path |-> FALSE, unzip_md5 |-> "none"]]
    /\ fs = [f \in FileIds |-> [source |-> TRUE, zip |-> FALSE, unzip |-> FALSE]]
    /\ cpc = "off"
    /\ pending = << >>
    /\ ctx = None
    /\ res_objs = [f \in FileIds |-> [zip |-> None, unzip |-> None]]
    /\ hist = [f \in FileIds |->
                 [ran |-> << >>, failed_at |-> "none", reason |-> "none",
                  result |-> None, marked |-> FALSE, handled |-> FALSE]]
    /\ tasks = << >>
    /\ upload_queue = << >>
    /\ retry_queue = << >>
    /\ running_tasks = [f \in FileIds |-> 0]
    /\ wpc = [w \in Workers |-> "off"]
    /\ wtask = [w \in Workers |-> 0]
    /\ shutdown = FALSE
    /\ NoClient
    /\ NoExtra
    /\ now = 0
    /\ recovery = [is_running |-> FALSE, wake |-> 0, notified |-> "untracked"]
    /\ rhist = [f \in FileIds |->
                  [dispatched |-> 0, last |-> None, record_error |-> "none", delay |-> 0]]

\* the pull loop takes the item (_get_pending_files), every stage and the upload
\* succeed, and _on_upload_success cleans up and persists the success
ItemCompletes(f) ==
    /\ db[f].process_status = "classify"
    /\ db[f].status_result # "failure"
    /\ fs[f].source
    /\ db' = [db EXCEPT ![f] = db_after_success([db[f] EXCEPT !.md5 = "h_src",
                                                              !.zipped_path = TRUE,
                                                              !.zipped_size = 2,
                                                              !.unzip_path = TRUE,
                                                              !.unzip_md5 = "h_src"], FALSE)]
    /\ fs' = [fs EXCEPT ![f] = [source |-> FALSE, zip |-> FALSE, unzip |-> FALSE]]
    /\ UNCHANGED <<recoveryFrame, error_records, now, recovery, rhist>>

NextResolve ==
    \/ Tick
    \/ StartMonitoring
    \/ Sweep
    \/ \E f \in FileIds : PutErrorRecord(f)
    \/ \E f \in FileIds : ItemCompletes(f)

SpecResolve == InitResolve /\ [][NextResolve]_vars

-----------------------------------------------------------------------------
(* SpecZombie: the recovery manager next to items that rest in a stage of the
   pipeline *)

\* the process_status values the stage methods persist, in pipeline order
StageStatuses == <<"hashed", "zipped", "zip_file_hashed", "unzipped", "unzip_hashed", "upload">>

\* the row and the artifacts of an item whose k-th stage was persisted at time t
stage_row(k, t) ==
    [process_status |-> StageStatuses[k], status_result |-> "success",
     md5 |-> "h_src", zipped_path |-> k >= 2, zipped_size |-> IF k >= 2 THEN 2 ELSE 0,
     unzip_path |-> k >= 4, unzip_md5 |-> IF k >= 5 THEN "h_src" ELSE "none",
     update_at |-> t]

\* the set of persisted stage values
StageStatusSet == {StageStatuses[k] : k \in DOMAIN StageStatuses}

stage_fs(k) == [source |-> TRUE, zip |-> k >= 2, unzip |-> k >= 4]

stage_index(status) == CHOOSE k \in DOMAIN StageStatuses : StageStatuses[k] = status

InitZombie ==
    /\ error_records = [f \in 1..NumFiles |-> None]
    /\ reservations = [p \in Paths |-> 0]
    /\ base_used = 0
    /\ max_disk_usage = DiskTotal
    /\ tpc = << >>
    /\ snap = << >>
    /\ held = << >>
    /\ items = [f \in FileIds |-> [classify_result |-> "normal_folder", item_size |-> 4]]
    /\ \E stage \in [FileIds -> DOMAIN StageStatuses] :
         /\ db = [f \in FileIds |-> stage_row(stage[f], 0)]
         /\ fs = [f \in FileIds |-> stage_fs(stage[f])]
    /\ cpc = "off"
    /\ pending = << >>
    /\ ctx = None
    /\ res_objs = [f \in FileIds |-> [zip |-> None, unzip |-> None]]
    /\ hist = [f \in FileIds |->
                 [ran |-> << >>, failed_at |-> "none", reason |-> "none",
                  result |-> None, marked |-> FALSE, handled |-> FALSE]]
    /\ tasks = << >>
    /\ upload_queue = << >>
    /\ retry_queue = << >>
    /\ running_tasks = [f \in FileIds |-> 0]
    /\ wpc = [w \in Workers |-> "off"]
    /\ wtask = [w \in Workers |-> 0]
    /\ shutdown = FALSE
    /\ NoClient
    /\ NoExtra
    /\ now = 0
    /\ recovery = [is_running |-> FALSE, wake |-> 0, notified |-> "untracked"]
    /\ rhist = [f \in FileIds |->
                  [dispatched |-> 0, last |-> None, record_error |-> "none", delay |-> 0]]

\* a stage method persists its process_status; update_at is set by onupdate
StagePersisted(f) ==
    /\ db[f].process_status \in StageStatusSet
    /\ stage_index(db[f].process_status) < Len(StageStatuses)
    /\ LET k == stage_index(db[f].process_status) + 1
       IN  /\ db' = [db EXCEPT ![f] = stage_row(k, now)]
           /\ fs' = [fs EXCEPT ![f] = stage_fs(k)]
    /\ UNCHANGED <<recoveryFrame, error_records, now, recovery, rhist>>

NextZombie ==
    \/ Tick
    \/ StartMonitoring
    \/ Sweep
    \/ \E f \in FileIds : StagePersisted(f)

SpecZombie == InitZombie /\ [][NextZombie]_vars

-----------------------------------------------------------------------------
(* SpecDispatch: the recovery loop over ErrorRecords that were stored one
   retry_delay before the clock starts, so that each is due at time 0 *)

InitDispatch ==
    /\ \E types \in [1..NumDue -> StoredTypes] :
         /\ error_records =
               [f \in 1..NumDue |->
                  ErrorRecord(types[f], "zip", 0 - retry_strategies[types[f]].retry_delay)]
         /\ db = [f \in 1..NumDue |->
                    [process_status |-> "error_" \o types[f], status_result |-> "failure",
                     md5 |-> "h_src", zipped_path |-> TRUE, zipped_size |-> 2,
                     unzip_path |-> FALSE, unzip_md5 |-> "none"]]
    /\ reservations = [p \in Paths |-> 0]
    /\ base_used = 0
    /\ max_disk_usage = DiskTotal
    /\ tpc = << >>
    /\ snap = << >>
    /\ held = << >>
    /\ items = [f \in FileIds |-> [classify_result |-> "normal_folder", item_size |-> 4]]
    /\ fs = [f \in FileIds |-> [source |-> TRUE, zip |-> TRUE, unzip |-> FALSE]]
    /\ cpc = "off"
    /\ pending = << >>
    /\ ctx = None
    /\ res_objs = [f \in FileIds |-> [zip |-> None, unzip |-> None]]
    /\ hist = [f \in FileIds |->
                 [ran |-> <<"hash", "zip">>, failed_at |-> "zip", reason |-> "raise",
                  result |-> None, marked |-> FALSE, handled |-> TRUE]]
    /\ tasks = << >>
    /\ upload_queue = << >>
    /\ retry_queue = << >>
    /\ running_tasks = [f \in FileIds |-> 0]
    /\ wpc = [w \in Workers |-> "off"]
    /\ wtask = [w \in Workers |-> 0]
    /\ shutdown = FALSE
    /\ NoClient
    /\ NoExtra
    /\ now = 0
    /\ recovery = [is_running |-> FALSE, wake |-> 0, notified |-> "none"]
    /\ rhist = [f \in FileIds |->
                  [dispatched |-> 0, last |-> error_records[f], record_error |-> "stored",
                   delay |-> 0]]

NextDispatch ==
    \/ Tick
    \/ StartMonitoring
    \/ Sweep

SpecDispatch == InitDispatch /\ [][NextDispatch]_vars

-----------------------------------------------------------------------------
(* SpecWait: a caller of wait_for_space while the usage of the volume changes *)

\* timeout arguments of wait_for_space; 0 is timeout=None
TimeoutChoices == {0, 2}

\* used bytes of the volume: the larger value leaves no room for the larger request
WaitUsedChoices == {24, 40}

\* a wait that keeps the timeout argument as it was given
timeout_as_given(timeout) == timeout

\* wait_for_space: timeout = timeout or self.config.max_wait_time_seconds
effective_timeout(timeout) == IF timeout # 0 THEN timeout ELSE max_wait_time_seconds

InitWait ==
    /\ reservations = [p \in Paths |-> 0]
    /\ base_used \in WaitUsedChoices
    /\ max_disk_usage = DiskTotal
    /\ tpc = << >>
    /\ snap = << >>
    /\ held = << >>
    /\ NoPipeline
    /\ NoClient
    /\ NoExtra
    /\ NoRecovery

waitFrame ==
    <<reservations, max_disk_usage, threadVars, pipeVars, uploadVars, clientVars, recoveryVars,
      ctl, scall, callback>>

\* wait_for_space(required_bytes, path, timeout) up to the loop
WaitForSpaceCall ==
    /\ wfs.pc = "idle"
    /\ \E required_bytes \in ReqSizes, path \in Paths, timeout \in TimeoutChoices :
         wfs' = [pc |-> "polling", required_bytes |-> required_bytes, path |-> path,
                 timeout |-> effective_timeout(timeout), elapsed |-> 0,
                 last_ok |-> FALSE, info |-> None]
    /\ UNCHANGED <<waitFrame, base_used>>

\* wait_for_space: one pass of the loop; elapsed is time.time() - start_time
WaitForSpacePoll ==
    /\ wfs.pc = "polling"
    /\ \E disk_ok \in BOOLEAN :
         LET can_process == can_process_file(wfs.required_bytes, wfs.path, disk_ok)
             space_info == IF disk_ok THEN check_space_status(wfs.path) ELSE None
             polled == [wfs EXCEPT !.last_ok = can_process, !.info = space_info]
         IN  IF can_process
             THEN wfs' = [pc |-> "returned", result |-> TRUE] @@ polled
             ELSE IF wfs.timeout # 0 /\ wfs.elapsed >= wfs.timeout
             THEN wfs' = [pc |-> "returned", result |-> FALSE] @@ polled
             ELSE /\ wfs.elapsed < MaxWaitClock
                  /\ wfs' = [polled EXCEPT !.elapsed = @ + check_interval]
    /\ UNCHANGED <<waitFrame, base_used>>

\* shutil.disk_usage: other users of the volume write and delete data
DiskUsageChanges ==
    /\ \E used \in WaitUsedChoices \ {base_used} : base_used' = used
    /\ UNCHANGED <<waitFrame, wfs>>

NextWait ==
    \/ WaitForSpaceCall
    \/ WaitForSpacePoll
    \/ DiskUsageChanges

\* the calling thread keeps running
SpecWait == InitWait /\ [][NextWait]_vars /\ WF_vars(WaitForSpacePoll)

-----------------------------------------------------------------------------
(* SpecStage: one stage method of SingleFileProcessor against a collaborator
   whose consecutive calls succeed or raise *)

\* the stages of a compressible item that call a hash or zip collaborator
RetryStages == {"hash", "zip", "zip_hash", "unzip", "unzip_hash"}

\* outcomes of the collaborator's consecutive calls; TRUE is a call that returns
CallOutcomes == [1..MaxCalls -> BOOLEAN]

\* _process_hash_stage and _process_zip_stage loop over range(self.max_retries);
\* the other stage methods are one try block
attempt_limit(stage) == IF stage \in {"hash", "zip"} THEN stage_max_retries ELSE 1

InitStage ==
    /\ reservations = [p \in Paths |-> 0]
    /\ base_used = 0
    /\ max_disk_usage = DiskTotal
    /\ tpc = << >>
    /\ snap = << >>
    /\ held = << >>
    /\ NoPipeline
    /\ NoClient
    /\ NoRecovery
    /\ wfs = [pc |-> "idle"]
    /\ ctl = [is_running |-> FALSE, pause_event |-> TRUE, stop_called |-> FALSE,
             paused_starts |-> 0]
    /\ \E stage \in RetryStages, outcomes \in CallOutcomes :
         scall = [pc |-> "running", stage |-> stage, outcomes |-> outcomes,
                  attempts |-> 0, success |-> FALSE]
    /\ callback = [may_raise |-> FALSE]

\* one call of the collaborator inside the stage method: return on success,
\* sleep and loop while attempts remain, otherwise return the failure
StageAttempt ==
    /\ scall.pc = "running"
    /\ LET attempt == scall.attempts + 1
       IN  IF scall.outcomes[attempt]
           THEN scall' = [scall EXCEPT !.pc = "done", !.attempts = attempt, !.success = TRUE]
           ELSE IF attempt < attempt_limit(scall.stage)
           THEN scall' = [scall EXCEPT !.attempts = attempt]
           ELSE scall' = [scall EXCEPT !.pc = "done", !.attempts = attempt]
    /\ UNCHANGED <<ledgerVars, threadVars, pipeVars, uploadVars, clientVars, recoveryVars, wfs, ctl,
                   callback>>

NextStage == StageAttempt

SpecStage == InitStage /\ [][NextStage]_vars

-----------------------------------------------------------------------------
(* SpecControl: run_full_cycle with its upload workers, and a controller
   thread that calls pause, resume and stop *)

Records == 1..NumRecords

\* a wait that returns whatever the flag is
pause_event_ignored(event) == TRUE

\* self._pause_event.wait(): returns once the event is set
pause_event_wait(event) == event

\* _get_pending_files over the rows of the table
pending_records ==
    SortedSeq({r \in Records : /\ db[r].process_status = "classify"
                               /\ db[r].status_result # "failure"})

\* get_queue_status as _wait_for_uploads reads it
queue_status_idle ==
    /\ Len(upload_queue) = 0
    /\ Len(retry_queue) = 0
    /\ \A w \in Workers : wpc[w] # "busy"

InitControl ==
    /\ reservations = [p \in Paths |-> 0]
    /\ base_used = 0
    /\ max_disk_usage = DiskTotal
    /\ tpc = << >>
    /\ snap = << >>
    /\ held = << >>
    /\ items = [r \in Records |-> [classify_result |-> "normal_folder", item_size |-> 4]]
    /\ db = [r \in Records |->
               [process_status |-> "classify", status_result |-> "success",
                md5 |-> "none", zipped_path |-> FALSE, zipped_size |-> 0,
                unzip_path |-> FALSE, unzip_md5 |-> "none"]]
    /\ fs = [r \in Records |-> [source |-> TRUE, zip |-> FALSE, unzip |-> FALSE]]
    /\ cpc = "start"
    /\ pending = << >>
    /\ ctx = None
    /\ res_objs = [r \in Records |-> [zip |-> None, unzip |-> None]]
    /\ hist = [r \in Records |->
                 [ran |-> << >>, failed_at |-> "none", reason |-> "none",
                  result |-> None, marked |-> FALSE, handled |-> FALSE]]
    /\ tasks = << >>
    /\ upload_queue = << >>
    /\ retry_queue = << >>
    /\ running_tasks = [r \in Records |-> 0]
    /\ wpc = [w \in Workers |-> "off"]
    /\ wtask = [w \in Workers |-> 0]
    /\ shutdown = FALSE
    /\ NoClient
    /\ NoRecovery
    /\ NoExtra

controlFrame ==
    <<ledgerVars, threadVars, items, fs, ctx, res_objs, hist, tasks, retry_queue,
      running_tasks, clientVars, recoveryVars, wfs, scall, callback>>

\* run_full_cycle: start()
CycleStart ==
    /\ cpc = "start"
    /\ ctl' = [ctl EXCEPT !.is_running = TRUE, !.pause_event = TRUE, !.paused_starts = 0]
    /\ shutdown' = FALSE
    /\ wpc' = [w \in Workers |-> "idle"]
    /\ cpc' = "outer_wait"
    /\ UNCHANGED <<controlFrame, db, pending, upload_queue, wtask>>

\* _process_files: self._pause_event.wait() at the top of the while loop
PauseCheckOuter ==
    /\ cpc = "outer_wait"
    /\ pause_event_wait(ctl.pause_event)
    /\ cpc' = "pull"
    /\ UNCHANGED <<controlFrame, db, pending, upload_queue, wpc, wtask, shutdown, ctl>>

\* _process_files: pending_files = self._get_pending_files(...)
PullRecords ==
    /\ cpc = "pull"
    /\ pending' = pending_records
    /\ cpc' = IF pending_records = << >> THEN "wait_uploads" ELSE "inner_wait"
    /\ UNCHANGED <<controlFrame, db, upload_queue, wpc, wtask, shutdown, ctl>>

\* _process_files: self._pause_event.wait() at the top of the for loop
PauseCheckInner ==
    /\ cpc = "inner_wait"
    /\ pause_event_wait(ctl.pause_event)
    /\ cpc' = "check_running"
    /\ UNCHANGED <<controlFrame, db, pending, upload_queue, wpc, wtask, shutdown, ctl>>

\* _process_files: if not self._is_running: return; otherwise the record starts
CheckRunning ==
    /\ cpc = "check_running"
    /\ IF ctl.is_running
       THEN /\ cpc' = "processing"
            /\ ctl' = [ctl EXCEPT !.paused_starts =
                                     IF ctl.pause_event THEN @ ELSE @ + 1]
       ELSE /\ cpc' = "wait_uploads"
            /\ UNCHANGED ctl
    /\ UNCHANGED <<controlFrame, db, pending, upload_queue, wpc, wtask, shutdown>>

\* _process_single_file(record) to its end: the stages succeed and the archive is
\* put on the upload queue (put blocks while the queue is full), a stage fails and
\* _update_record_failure persists it, or the call raises and the row is left
ProcessRecord ==
    /\ cpc = "processing"
    /\ LET record == Head(pending)
       IN  \E outcome \in {"success", "failure", "raised"} :
             CASE outcome = "success" ->
                    /\ Len(upload_queue) < max_queue_size
                    /\ db' = [db EXCEPT ![record].process_status = "upload"]
                    /\ upload_queue' = Append(upload_queue, record)
               [] outcome = "failure" ->
                    /\ db' = [db EXCEPT ![record].process_status = "zip",
                                        ![record].status_result = "failure"]
                    /\ UNCHANGED upload_queue
               [] outcome = "raised" ->
                    /\ UNCHANGED <<db, upload_queue>>
    /\ pending' = Tail(pending)
    /\ cpc' = IF Tail(pending) = << >> THEN "outer_wait" ELSE "inner_wait"
    /\ UNCHANGED <<controlFrame, wpc, wtask, shutdown, ctl>>

\* _wait_for_uploads: the loop ends when the queues are empty and no task runs
WaitUploadsDrained ==
    /\ cpc = "wait_uploads"
    /\ queue_status_idle
    /\ cpc' = "finally"
    /\ UNCHANGED <<controlFrame, db, pending, upload_queue, wpc, wtask, shutdown, ctl>>

\* stop() as the coordinator and the upload service go through it
stop_flags(c) == [c EXCEPT !.is_running = FALSE]

\* run_full_cycle: finally: self.stop()
FinallyStop ==
    /\ cpc = "finally"
    /\ IF ctl.is_running
       THEN /\ ctl' = stop_flags(ctl)
            /\ shutdown' = TRUE
            /\ cpc' = "joining"
       ELSE /\ cpc' = "done"
            /\ UNCHANGED <<ctl, shutdown>>
    /\ UNCHANGED <<controlFrame, db, pending, upload_queue, wpc, wtask>>

\* stop(): executor.shutdown(wait=True) returns when the workers have ended
Joined ==
    /\ cpc = "joining"
    /\ \A w \in Workers : wpc[w] = "exited"
    /\ cpc' = "done"
    /\ UNCHANGED <<controlFrame, db, pending, upload_queue, wpc, wtask, shutdown, ctl>>

\* _upload_worker: a task is taken from the queue
UploadWorkerGet(w) ==
    /\ wpc[w] = "idle"
    /\ ~shutdown
    /\ upload_queue # << >>
    /\ wtask' = [wtask EXCEPT ![w] = Head(upload_queue)]
    /\ upload_queue' = Tail(upload_queue)
    /\ wpc' = [wpc EXCEPT ![w] = "busy"]
    /\ UNCHANGED <<controlFrame, db, pending, cpc, shutdown, ctl>>

\* _upload_worker: _execute_upload(task) returns
UploadWorkerFinish(w) ==
    /\ wpc[w] = "busy"
    /\ db' = [db EXCEPT ![wtask[w]].process_status = "uploaded"]
    /\ wtask' = [wtask EXCEPT ![w] = 0]
    /\ wpc' = [wpc EXCEPT ![w] = "idle"]
    /\ UNCHANGED <<controlFrame, pending, cpc, upload_queue, shutdown, ctl>>

\* _upload_worker: while not self._shutdown_event.is_set() ends the loop
UploadWorkerExit(w) ==
    /\ wpc[w] = "idle"
    /\ shutdown
    /\ wpc' = [wpc EXCEPT ![w] = "exited"]
    /\ UNCHANGED <<controlFrame, db, pending, cpc, upload_queue, wtask, shutdown, ctl>>

\* stop() called by the controller while run_full_cycle is under way
StopCall ==
    /\ cpc \notin {"start", "done"}
    /\ ~ctl.stop_called
    /\ ctl' = [(IF ctl.is_running THEN stop_flags(ctl) ELSE ctl) EXCEPT !.stop_called = TRUE]
    /\ shutdown' = (shutdown \/ ctl.is_running)
    /\ UNCHANGED <<controlFrame, db, pending, cpc, upload_queue, wpc, wtask>>

\* pause()
Pause ==
    /\ ctl.pause_event
    /\ ctl' = [ctl EXCEPT !.pause_event = FALSE, !.paused_starts = 0]
    /\ UNCHANGED <<controlFrame, db, pending, cpc, upload_queue, wpc, wtask, shutdown>>

\* resume()
Resume ==
    /\ ~ctl.pause_event
    /\ ctl' = [ctl EXCEPT !.pause_event = TRUE, !.paused_starts = 0]
    /\ UNCHANGED <<controlFrame, db, pending, cpc, upload_queue, wpc, wtask, shutdown>>

\* the next step of the thread that runs run_full_cycle
CycleStep ==
    \/ CycleStart
    \/ PauseCheckOuter
    \/ PullRecords
    \/ PauseCheckInner
    \/ CheckRunning
    \/ ProcessRecord
    \/ WaitUploadsDrained
    \/ FinallyStop
    \/ Joined

\* the next step of upload worker w
UploadWorkerStep(w) ==
    \/ UploadWorkerGet(w)
    \/ UploadWorkerFinish(w)
    \/ UploadWorkerExit(w)

NextControl ==
    \/ CycleStep
    \/ \E w \in Workers : UploadWorkerStep(w)
    \/ StopCall
    \/ Pause
    \/ Resume

\* the cycle thread and the worker threads keep running, and a wait on the pause
\* event returns when the event is set, however briefly; the controller is free
SpecControl ==
    /\ InitControl
    /\ [][NextControl]_vars
    /\ SF_vars(CycleStep)
    /\ \A w \in Workers : WF_vars(UploadWorkerStep(w))

-----------------------------------------------------------------------------
(* Properties *)

TaskIds == DOMAIN tasks

InQueues(tid) ==
    \/ \E k \in DOMAIN retry_queue : retry_queue[k] = tid
    \/ \E k \in DOMAIN upload_queue : upload_queue[k].task = tid

C2_SourceDeletedOnlyIfHashVerified ==
    \A i \in Items :
        (items[i].classify_result \in Compressible /\ (hist[i].marked \/ ~fs[i].source))
            => (db[i].md5 # "none" /\ db[i].unzip_md5 = db[i].md5)

\* bytes of the unreleased reservations the client threads hold on a path
ActiveReserved(path) ==
    SumOver({t \in Threads : held[t] # None /\ ~held[t].released /\ held[t].path = path},
            [t \in Threads |-> IF held[t] # None THEN held[t].reserved_bytes ELSE 0])

\* C3: in every state reached by concurrent reserve_space and release calls,
\* actual usage plus the active reservations of a path stays within the
\* configured threshold.
C3_WithinThreshold ==
    \A p \in Paths : ActualUsed + ActiveReserved(p) <= max_disk_usage

\* The check-then-commit of reserve_space never commits a path beyond the
\* capacity of the volume, and the ledger entry is the sum of the active reservations.
LedgerWithinCapacity ==
    \A p \in Paths :
        /\ reservations[p] = ActiveReserved(p)
        /\ ActualUsed + ActiveReserved(p) <= DiskTotal

\* C4: can_process_file(required) is true iff usage + reservations +
\* required with its safety margin is within the threshold.
C4_AdmitIffWithinThreshold ==
    \A t \in Threads :
        (tpc[t] = "checked" /\ snap[t].disk_ok) =>
            (snap[t].admitted <=>
                snap[t].used_bytes + get_required_space_with_margin(snap[t].bytes)
                    <= max_disk_usage)

\* C5: when process_file has returned a failed result, every reservation the
\* call created (ZIP stage, UNZIP stage) has been released.
C5_FailedCallReleasedAll ==
    \A i \in Items :
        (hist[i].result # None /\ ~hist[i].result.success) =>
            \A k \in {"zip", "unzip"} : res_objs[i][k] = None \/ res_objs[i][k].released

Quiescent ==
    /\ cpc \in {"wait_uploads", "stopping", "done"}
    /\ uploads_drained
    /\ \A w \in Workers : wpc[w] \in {"idle", "off"}

\* C6: when every item is finished and neither the pipeline nor an upload is in
\* flight, the ledger has no non-zero entry.
C6_LedgerEmptyWhenQuiescent ==
    Quiescent => \A p \in Paths : reservations[p] = 0

C8_DeletedAfterUpload ==
    \A tid \in TaskIds :
        tasks[tid].status = "success" =>
            StageOfStatus(db[tasks[tid].item_id].process_status) = "deleted"

\* C9: when a stage fails, no later stage runs, the item is not marked
\* UPLOAD_QUEUE, the returned result is a failure naming that stage and its
\* reason, and no upload task is submitted for the item.
C9_StageFailureStops ==
    \A i \in Items :
        hist[i].failed_at # "none" =>
            /\ hist[i].ran[Len(hist[i].ran)] = hist[i].failed_at
            /\ ~hist[i].marked
            /\ db[i].process_status # "upload"
            /\ hist[i].result # None =>
                 hist[i].result = ProcessResult(FALSE, hist[i].failed_at, hist[i].reason)
            /\ hist[i].handled =>
                 /\ db[i].process_status = hist[i].failed_at
                 /\ db[i].status_result = "failure"
            /\ \A tid \in TaskIds : tasks[tid].item_id # i

C9_Witness ==
    \E i \in Items :
        /\ hist[i].failed_at = "zip_hash"
        /\ items[i].classify_result \in Compressible
        /\ hist[i].handled

\* C10: every item the pipeline marked UPLOAD_QUEUE has, once the coordinator
\* handled its result, exactly one upload task with its id and archive size.
C10_MarkedItemsSubmittedOnce ==
    \A i \in Items :
        (hist[i].marked /\ hist[i].handled) =>
            Cardinality({tid \in TaskIds : tasks[tid].item_id = i}) = 1

Running == \A w \in Workers : wpc[w] # "off"

HeldByWorker(tid) == \E w \in Workers : wtask[w] = tid

\* C11: when wait_for_completion returns True, every task submitted before is
\* SUCCESS or FAILED; it returns False only after the timeout has elapsed.
C11_WaitReturnsWhenAllDone ==
    [][(wfc.pc = "polling" /\ wfc'.pc = "returned") =>
          IF wfc'.result
          THEN \A tid \in Submitted : Terminal(tid)
          ELSE wfc.has_timeout /\ wfc'.elapsed]_vars

\* C12: with the workers running and scheduled fairly, whatever the uploads
\* return, again and again a state is reached where every task submitted so far
\* is SUCCESS or FAILED and both queues and running_tasks are empty (SUCCESS and
\* FAILED are final, so every submitted task eventually reaches one of them).
C12_EveryTaskFinishes ==
    []<>(Running => (queue_empty /\ \A tid \in Submitted : Terminal(tid)))

C12_Witness ==
    /\ Len(tasks) = MaxTasks
    /\ queue_empty
    /\ \A tid \in DOMAIN tasks : Terminal(tid)
    /\ \E tid \in DOMAIN tasks :
         tasks[tid].status = "failed" /\ fs[tasks[tid].item_id].zip

\* C13: in every reachable state of the upload service every task has
\* retry_count <= max_retries.
C13_RetryCountBounded ==
    \A tid \in DOMAIN tasks :
        tasks[tid].retry_count >= 0 /\ tasks[tid].retry_count <= tasks[tid].max_retries

C13_Witness ==
    \E tid \in DOMAIN tasks :
        /\ tasks[tid].retry_count = tasks[tid].max_retries
        /\ tasks[tid].status = "retrying"
        /\ \E k \in DOMAIN retry_queue : retry_queue[k] = tid

\* C14: an execution that finds the archive file missing makes the task FAILED
\* at once: retry_count unchanged, nothing put in the retry queue, on_failure called.
C14_MissingFileNotRetried ==
    [][\A w \in Workers :
          (/\ wpc[w] = "uploading"
           /\ wpc'[w] = "finally"
           /\ ~fs[tasks[wtask[w]].item_id].zip) =>
              /\ tasks'[wtask[w]].status = "failed"
              /\ tasks'[wtask[w]].retry_count = tasks[wtask[w]].retry_count
              /\ tasks'[wtask[w]].on_failure_calls = tasks[wtask[w]].on_failure_calls + 1
              /\ retry_queue' = retry_queue]_vars

\* C15: no caller of submit_upload is ever blocked inside the call.
C15_SubmitNeverBlocks == sub = 0

\* C16: no worker takes a task from the primary queue at a moment when the
\* retry queue holds a task.
C16_RetryQueueFirst ==
    [][\A w \in Workers :
          (wpc[w] = "get_primary" /\ wpc'[w] = "got") => retry_queue = << >>]_vars

\* C17: a task whose upload failed k <= max_retries times and then succeeded is
\* SUCCESS with retry_count = k, on_success called exactly once, in neither queue
\* and, once its worker is through, not in running_tasks.
C17_SuccessAfterKFailures ==
    \A tid \in DOMAIN tasks :
        tasks[tid].status = "success" =>
            /\ tasks[tid].retry_count = tasks[tid].attempts - 1
            /\ tasks[tid].retry_count <= tasks[tid].max_retries
            /\ tasks[tid].on_success_calls = 1
            /\ tasks[tid].on_failure_calls = 0
            /\ ~InQueues(tid)
            /\ ~HeldByWorker(tid) => running_tasks[tasks[tid].item_id] # tid

C17_Witness ==
    \E tid \in DOMAIN tasks :
        /\ tasks[tid].status = "success"
        /\ tasks[tid].retry_count = tasks[tid].max_retries
        /\ ~HeldByWorker(tid)

\* the record of file f was deleted from error_records by a dispatch
Resolved(f) == error_records[f] = None /\ rhist[f].dispatched > 0

RetryActions == {"retry", "cleanup_and_retry", "wait_and_retry"}

\* C18 (as amended): no ErrorRecord is dispatched more than max_retries times and
\* retry_count never exceeds max_retries.  A dispatch under RETRY,
\* CLEANUP_AND_RETRY or WAIT_AND_RETRY increments retry_count, and the record is
\* removed exactly when retry_count reaches max_retries, the item then being
\* marked permanent_failure.  A dispatch under SKIP or MANUAL_INTERVENTION removes
\* the record at once, retry_count still 0, the item marked skipped or
\* manual_intervention_required.
C18_DispatchBudget ==
    \A f \in FileIds :
        rhist[f].last # None =>
            LET last == rhist[f].last
                n == rhist[f].dispatched
            IN  /\ n <= last.max_retries
                /\ last.retry_count <= last.max_retries
                /\ error_records[f] # None => error_records[f] = last
                /\ IF last.recovery_action \in RetryActions
                   THEN /\ last.retry_count = n
                        /\ Resolved(f) <=> last.retry_count = last.max_retries
                        /\ Resolved(f) => db[f].process_status = "permanent_failure"
                   ELSE /\ last.retry_count = 0
                        /\ Resolved(f) <=> n = 1
                        /\ Resolved(f) =>
                             db[f].process_status =
                                 IF last.recovery_action = "skip"
                                 THEN "skipped" ELSE "manual_intervention_required"

\* C18 witness: a record under RETRY was dispatched max_retries times, counted
\* each time, and ended as a permanent failure with the record removed
C18_Witness ==
    \E f \in FileIds :
        /\ rhist[f].last # None /\ rhist[f].last.recovery_action = "retry"
        /\ rhist[f].dispatched = rhist[f].last.max_retries
        /\ rhist[f].last.retry_count = rhist[f].last.max_retries
        /\ Resolved(f) /\ db[f].process_status = "permanent_failure"

\* C18 as stated: every dispatch increments retry_count, retry_count never
\* exceeds max_retries, no record is dispatched more than max_retries times, and
\* an exhausted budget means permanent failure and removal
C18_EveryDispatchCounts ==
    \A f \in FileIds :
        rhist[f].last # None =>
            LET last == rhist[f].last
                n == rhist[f].dispatched
            IN  /\ n <= last.max_retries
                /\ last.retry_count <= last.max_retries
                /\ last.retry_count = n
                /\ last.retry_count = last.max_retries =>
                     error_records[f] = None /\ db[f].process_status = "permanent_failure"

\* C19: a sweep dispatches a record exactly once if its next_retry_time has
\* elapsed and its budget is not exhausted, and not at all otherwise: never one
\* whose next_retry_time is still in the future
C19_SweepDispatchesDue ==
    [][(recovery.is_running /\ recovery'.wake # recovery.wake) =>
          \A f \in FileIds :
              rhist'[f].dispatched - rhist[f].dispatched =
                  IF /\ error_records[f] # None
                     /\ error_records[f].next_retry_time <= now
                     /\ error_records[f].retry_count < error_records[f].max_retries
                  THEN 1 ELSE 0]_vars

\* C19 witness: a sweep has run at the present time and left alone a record
\* stored before it whose next_retry_time is still in the future
C19_Witness ==
    \E f \in FileIds :
        /\ recovery.is_running /\ recovery.wake = now + recovery_interval
        /\ error_records[f] # None
        /\ rhist[f].dispatched = 0
        /\ error_records[f].next_retry_time > now
        /\ error_records[f].next_retry_time - retry_delay(error_records[f]) < now

\* C20: record_error never raises: every call stores an ErrorRecord
C20_RecordErrorNeverRaises ==
    \A f \in FileIds : rhist[f].record_error # "raised"

\* the keywords of _classify_error found in the message of a stage whose
\* reservation was denied: "Failed to reserve disk space for zip operation" and
\* "Failed to reserve disk space for unzip operation"
reserve_failure_message(stage) == {"disk", "space", "zip"}

\* C21: when reserve_space is denied at the ZIP stage, ZIP is the last stage that
\* ran, the call holds no reservation when it returns, and the classifier puts the
\* reported message in SPACE_INSUFFICIENT
C21_ZipDenialReported ==
    \A i \in Items :
        (hist[i].failed_at = "zip" /\ hist[i].reason = "reserve_denied"
            /\ hist[i].result # None) =>
            /\ hist[i].ran[Len(hist[i].ran)] = "zip"
            /\ hist[i].result = ProcessResult(FALSE, "zip", "reserve_denied")
            /\ \A k \in {"zip", "unzip"} : res_objs[i][k] = None
            /\ classify_error(reserve_failure_message("zip")) = "space_insufficient"

\* bytes of all the unreleased reservations on the volume, whatever their path key
AllActiveReserved == SumOver(Paths, [p \in Paths |-> ActiveReserved(p)])

\* C28: the used bytes check_space_status evaluates for a path are the actual
\* used bytes of the volume plus all the active reservations on that volume, those
\* made under the other path key included
C28_EffectiveUsedCountsAll ==
    \A p \in Paths : check_space_status(p).used_bytes = ActualUsed + AllActiveReserved

\* C29: once the upload of a compressible item has succeeded and the cleanup of
\* the success callback has run, the source, the archive and the decompressed
\* copy of the item are all gone
C29_NoArtifactsAfterUpload ==
    \A tid \in TaskIds :
        LET i == tasks[tid].item_id
        IN  (tasks[tid].status = "success" /\ items[i].classify_result \in Compressible) =>
                ~fs[i].source /\ ~fs[i].zip /\ ~fs[i].unzip

C30_StageRetriesLocally ==
    scall.pc = "done" =>
        /\ scall.attempts <= stage_max_retries
        /\ scall.success <=> \E k \in 1..stage_max_retries : scall.outcomes[k]
        /\ ~scall.success => scall.attempts = stage_max_retries

\* C22: an item that is reported successful has no open ErrorRecord
C22_NoRecordOnSuccess ==
    \A f \in FileIds :
        (db[f].process_status = "uploaded" /\ db[f].status_result = "success") =>
            error_records[f] = None

\* C23: a sweep resets every item that rests in a stage of the pipeline and was
\* last updated before the cutoff, with its archive and scratch copy removed,
\* and leaves alone an item updated within the threshold
C23_StaleItemsReaped ==
    [][(recovery.is_running /\ recovery'.wake # recovery.wake) =>
         \A f \in FileIds :
            IF /\ db[f].process_status \in StageStatusSet
               /\ db[f].update_at < now - zombie_cutoff
            THEN db'[f].process_status = "classify" /\ ~fs'[f].zip /\ ~fs'[f].unzip
            ELSE db'[f] = db[f] /\ fs'[f] = fs[f]]_vars

\* C24: after stop() the upload workers end and run_full_cycle returns
C24_StopEndsCycle ==
    ctl.stop_called ~> (cpc = "done" /\ \A w \in Workers : wpc[w] = "exited")

\* C25: while the coordinator is paused the loop passes no pause check, so at
\* most the record whose check had already passed starts; a record that has
\* started is processed to its end; the loop goes on with the head of the
\* pending records
C25_PauseHoldsLoop ==
    /\ [](ctl.paused_starts <= 1)
    /\ [][/\ (cpc \in {"outer_wait", "inner_wait"} /\ cpc' # cpc) => ctl.pause_event
          /\ (cpc = "inner_wait" /\ cpc' # cpc) =>
                (cpc' = "check_running" /\ pending' = pending /\ pending # << >>)
          /\ (cpc = "processing" /\ cpc' # cpc) =>
                (pending' = Tail(pending) /\ cpc' \in {"outer_wait", "inner_wait"})]_vars

\* C25 witness: a record started after pause() and was processed, and the
\* loop is held at the pause check of the next pending record
C25_Witness ==
    /\ ~ctl.pause_event
    /\ ctl.paused_starts = 1
    /\ cpc = "inner_wait"
    /\ pending # << >>

\* C25 as stated: no record starts while the coordinator is paused
C25_NoStartWhilePaused ==
    [][(cpc # "processing" /\ cpc' = "processing") => ctl.pause_event]_vars

\* C39: a dispatch of a retrying action that leaves the record open leaves the
\* item in the state the pull query selects
C39_RetryLeavesItemPending ==
    [][\A f \in FileIds :
          (/\ rhist'[f].dispatched = rhist[f].dispatched + 1
           /\ error_records[f] # None
           /\ error_records[f].recovery_action \in RetryActions
           /\ error_records'[f] # None) =>
              /\ db'[f].process_status = "classify"
              /\ db'[f].status_result # "failure"]_vars

C31_WaitDelayWidens ==
    [][\A f \in FileIds :
          (/\ rhist'[f].dispatched = rhist[f].dispatched + 1
           /\ rhist[f].dispatched >= 1
           /\ error_records[f] # None
           /\ error_records[f].recovery_action = "wait_and_retry"
           /\ error_records'[f] # None) =>
              rhist'[f].delay > rhist[f].delay]_vars

\* C33: whatever the notification of an escalation does, the sweep dispatches
\* every due record, leaves the escalated item marked for manual intervention
\* with its record removed, and the loop sleeps its recovery_interval and runs on
C33_NotificationNeverFailsSweep ==
    [][(recovery.is_running /\ recovery'.wake # recovery.wake) =>
          /\ recovery'.is_running
          /\ recovery'.wake = now + recovery_interval
          /\ \A f \in FileIds :
               (error_records[f] # None /\ is_pending(error_records[f], now)) =>
                  /\ rhist'[f].dispatched = rhist[f].dispatched + 1
                  /\ error_records[f].recovery_action = "manual_intervention" =>
                        /\ error_records'[f] = None
                        /\ db'[f].process_status = "manual_intervention_required"]_vars

\* C33 witness: the notification of an escalation raised, the escalated item is
\* marked, and the same sweep dispatched another record
C33_Witness ==
    /\ recovery.notified = "raised"
    /\ recovery.is_running
    /\ \E f, g \in FileIds :
         /\ f # g
         /\ db[f].process_status = "manual_intervention_required"
         /\ error_records[f] = None
         /\ error_records[g] # None
         /\ rhist[g].dispatched = 1

-----------------------------------------------------------------------------
(* SpecQueue: the upload service built with the default queue size, a      *)
(* caller of submit_upload that passes a priority, and a caller of         *)
(* get_pending_tasks                                                       *)

\* AsyncUploadService.__init__: the default of max_queue_size
default_queue_size == 1000

\* the priorities the callers of submit_upload pass
Priorities == {0, 1}

\* queue.Queue.put on the primary queue: the tuple goes to the tail, whatever
\* its first element is
queue_put(q, entry) == Append(q, entry)

\* submit_upload(item_id, file_path, file_size, priority); the default queue
\* size is never reached by MaxTasks calls, so put does not block
SubmitWithPriority ==
    /\ Len(tasks) < MaxTasks
    /\ Len(upload_queue) < default_queue_size
    /\ \E priority \in Priorities :
         LET tid == Len(tasks) + 1
         IN  /\ tasks' = Append(tasks, UploadTask(tid, db[tid].zipped_size))
             /\ upload_queue' = queue_put(upload_queue, [priority |-> priority, task |-> tid])
    /\ UNCHANGED <<ledgerVars, threadVars, pipeVars, retry_queue, running_tasks, wpc, wtask,
                   shutdown, clientVars, recoveryVars, extraVars>>

\* get_pending_tasks: get_nowait until the primary queue is empty; the tasks
\* go to the returned list and are not put back
GetPendingTasks ==
    /\ upload_queue # << >>
    /\ upload_queue' = << >>
    /\ UNCHANGED <<ledgerVars, threadVars, pipeVars, tasks, retry_queue, running_tasks, wpc,
                   wtask, shutdown, clientVars, recoveryVars, extraVars>>

NextQueue ==
    \/ ServiceStart
    \/ SubmitWithPriority
    \/ GetPendingTasks
    \/ \E w \in Workers :
        \/ WorkerCheck(w)
        \/ WorkerGetRetry(w)
        \/ WorkerGetPrimary(w)
        \/ ExecuteStart(w)
        \/ ExecuteUpload(w)
        \/ ExecuteFinally(w)

SpecQueue == InitUpload /\ [][NextQueue]_vars

\* a worker takes a task from the primary queue in this step
TakesFromPrimary(w) == wpc[w] = "get_primary" /\ wpc'[w] = "got"

\* C34: of the tasks waiting in the primary queue a worker takes one of the
\* largest priority number, and among those the one submitted first
C34_LargestPriorityFirst ==
    [][\A w \in Workers :
         TakesFromPrimary(w) =>
           \A k \in 1..Len(upload_queue) :
              LET taken == CHOOSE e \in {upload_queue[j] : j \in 1..Len(upload_queue)} :
                              e.task = wtask'[w]
              IN  \/ upload_queue[k].priority < taken.priority
                  \/ /\ upload_queue[k].priority = taken.priority
                     /\ upload_queue[k].task >= taken.task]_vars

\* C40: get_pending_tasks leaves the two queues and the in-flight set as they
\* are: an entry leaves the primary queue only into a worker's hands
C40_PendingTasksOnlyRead ==
    [][\A k \in 1..Len(upload_queue) :
         \/ \E j \in 1..Len(upload_queue') : upload_queue'[j] = upload_queue[k]
         \/ \E w \in Workers : TakesFromPrimary(w) /\ wtask'[w] = upload_queue[k].task]_vars

-----------------------------------------------------------------------------
(* SpecCallback: the upload service built with callbacks that may raise    *)

InitCallback ==
    /\ reservations = [p \in Paths |-> 0]
    /\ base_used = 0
    /\ max_disk_usage = DiskTotal
    /\ tpc = << >>
    /\ snap = << >>
    /\ held = << >>
    /\ items = [i \in UploadItems |-> [classify_result |-> "normal_folder", item_size |-> 4]]
    /\ db = [i \in UploadItems |->
               [process_status |-> "upload", status_result |-> "success",
                md5 |-> "h_src", zipped_path |-> TRUE, zipped_size |-> 2,
                unzip_path |-> TRUE, unzip_md5 |-> "h_src"]]
    /\ fs = [i \in UploadItems |-> [source |-> TRUE, zip |-> TRUE, unzip |-> TRUE]]
    /\ cpc = "off"
    /\ pending = << >>
    /\ ctx = None
    /\ res_objs = [i \in UploadItems |-> [zip |-> None, unzip |-> None]]
    /\ hist = [i \in UploadItems |->
                 [ran |-> << >>, failed_at |-> "none", reason |-> "none",
                  result |-> None, marked |-> TRUE, handled |-> TRUE]]
    /\ tasks = << >>
    /\ upload_queue = << >>
    /\ retry_queue = << >>
    /\ running_tasks = [i \in UploadItems |-> 0]
    /\ wpc = [w \in Workers |-> "off"]
    /\ wtask = [w \in Workers |-> 0]
    /\ shutdown = FALSE
    /\ NoClient
    /\ NoRecovery
    /\ wfs = [pc |-> "idle"]
    /\ ctl = [is_running |-> FALSE, pause_event |-> TRUE, stop_called |-> FALSE,
             paused_starts |-> 0]
    /\ scall = None
    /\ callback = [may_raise |-> TRUE]

SpecCallback == InitCallback /\ [][NextService]_vars

\* C32: when a callback of an execution raises, the task gets the status, the
\* retry handling and the persisted row of an execution whose callback
\* returned, and the worker's next step takes it back to the test of its loop
C32_CallbackExceptionContained ==
    [][\A w \in Workers :
         /\ (wpc[w] = "finally_logged" /\ wpc'[w] # wpc[w]) =>
               wpc'[w] = "idle" /\ ~shutdown'
         /\ (wpc[w] = "uploading" /\ wpc'[w] = "finally_logged") =>
               LET tid == wtask[w]
                   i == tasks[tid].item_id
               IN  IF tasks'[tid].on_success_calls > tasks[tid].on_success_calls
                   THEN /\ tasks'[tid].status = "success"
                        /\ db'[i].process_status = "uploaded"
                        /\ db'[i].status_result = "success"
                        /\ retry_queue' = retry_queue
                   ELSE IF can_retry(tasks[tid])
                   THEN /\ tasks'[tid].status = "retrying"
                        /\ tasks'[tid].retry_count = tasks[tid].retry_count + 1
                        /\ retry_queue' = Append(retry_queue, tid)
                        /\ db' = db
                   ELSE /\ tasks'[tid].status = "failed"
                        /\ db'[i].process_status = "upload"
                        /\ db'[i].status_result = "failure"
                        /\ retry_queue' = retry_queue]_vars

\* a worker is past an execution whose on_success raised, its task SUCCESS,
\* while the other worker executes a task that was retried
C32_Witness ==
    \E w, v \in Workers :
        /\ wpc[w] = "finally_logged"
        /\ tasks[wtask[w]].status = "success"
        /\ wpc[v] = "uploading"
        /\ tasks[wtask[v]].retry_count > 0

\* C38: after its processing attempt, whatever its outcome, a pulled record is
\* no longer a row the pull query of _get_pending_files returns
C38_AttemptLeavesUnprocessedSet ==
    [][(cpc = "processing" /\ cpc' # "processing") =>
          ~(/\ db'[Head(pending)].process_status = "classify"
            /\ db'[Head(pending)].status_result # "failure")]_vars

-----------------------------------------------------------------------------
(* SpecRetry: one call of ErrorHandler.execute_with_retry; call k of the    *)
(* function returns the value k or raises the exception k                  *)

\* ErrorHandler.__init__: the defaults of base_delay and max_delay
base_delay == 1
max_delay == 60

Min(a, b) == IF a <= b THEN a ELSE b

\* a test of the last attempt that gives up one attempt early
is_last_attempt_early(attempt, max_retry_attempts) == attempt >= max_retry_attempts - 2

\* execute_with_retry: if attempt == self.max_retry_attempts - 1
is_last_attempt(attempt, max_retry_attempts) == attempt = max_retry_attempts - 1

InitRetry ==
    /\ InitLedgerVars
    /\ tpc = << >>
    /\ snap = << >>
    /\ held = << >>
    /\ NoPipeline
    /\ NoClient
    /\ NoRecovery
    /\ wfs = [pc |-> "idle"]
    /\ ctl = [is_running |-> FALSE, pause_event |-> TRUE, stop_called |-> FALSE,
             paused_starts |-> 0]
    /\ callback = [may_raise |-> FALSE]
    /\ \E max_retry_attempts \in 0..MaxCalls, outcomes \in CallOutcomes :
         scall = [pc |-> "loop", max_retry_attempts |-> max_retry_attempts,
                  outcomes |-> outcomes, attempt |-> 0, calls |-> 0,
                  last_exception |-> None, result |-> None, raised |-> None, delay |-> 0]

\* execute_with_retry: one pass of the for loop, or the raise after the loop
\* when range(self.max_retry_attempts) has nothing left
RetryAttempt ==
    /\ scall.pc = "loop"
    /\ IF scall.attempt < scall.max_retry_attempts
       THEN LET call == scall.calls + 1
            IN  IF scall.outcomes[call]
                THEN scall' = [scall EXCEPT !.pc = "returned", !.calls = call,
                                            !.result = call]
                ELSE IF is_last_attempt(scall.attempt, scall.max_retry_attempts)
                THEN scall' = [scall EXCEPT !.pc = "raised", !.calls = call,
                                            !.last_exception = call, !.raised = call]
                ELSE scall' = [scall EXCEPT
                                 !.calls = call,
                                 !.last_exception = call,
                                 !.delay = Min(base_delay * (2 ^ scall.attempt), max_delay),
                                 !.attempt = @ + 1]
       ELSE scall' = [scall EXCEPT !.pc = "raised",
                                   !.raised = IF scall.last_exception = None
                                              THEN "TypeError"
                                              ELSE scall.last_exception]
    /\ UNCHANGED <<ledgerVars, threadVars, pipeVars, uploadVars, clientVars, recoveryVars, wfs, ctl,
                   callback>>

NextRetry == RetryAttempt

SpecRetry == InitRetry /\ [][NextRetry]_vars

\* C35: execute_with_retry calls the function at most max_retry_attempts times;
\* it returns the value of the first call that returns, having made no call
\* after it; when all max_retry_attempts calls raise, it raises the exception
\* of the last of them
C35_ExecuteWithRetry ==
    LET max == scall.max_retry_attempts
        succeeding == {k \in 1..max : scall.outcomes[k]}
    IN  /\ scall.calls <= max
        /\ scall.pc = "returned" =>
              /\ scall.calls \in succeeding
              /\ \A k \in succeeding : scall.calls <= k
              /\ scall.result = scall.calls
        /\ (scall.pc = "raised" /\ max > 0) =>
              /\ succeeding = {}
              /\ scall.calls = max
              /\ scall.raised = max
        /\ (scall.pc = "loop" /\ scall.calls < max) => \A k \in 1..scall.calls : k \notin succeeding

\* every one of three or more attempts has failed
C35_Witness ==
    /\ scall.pc = "raised"
    /\ scall.max_retry_attempts >= 3
    /\ scall.calls = scall.max_retry_attempts
    /\ scall.raised = scall.calls

-----------------------------------------------------------------------------
(* SpecUnzip: process_file calls running side by side on one ledger, each  *)
(* followed through the reservation of its UNZIP stage                     *)

\* sizes of the items the calls process
UnzipItemSizes == {2, 4}

\* _process_unzip_stage: reserve_space(unzip_folder, required_space) for the item
UnzipReserve(t) ==
    /\ tpc[t] = "idle"
    /\ held[t] = None
    /\ \E item_size \in UnzipItemSizes, disk_ok \in BOOLEAN :
         LET required_space == calculate_required_space("unzip", item_size)
         IN  IF reserve_space_ok("unzip_folder", required_space, disk_ok)
             THEN /\ reservations' = [reservations EXCEPT !["unzip_folder"] =
                                         @ + required_space]
                  /\ held' = [held EXCEPT ![t] =
                                [path |-> "unzip_folder", reserved_bytes |-> required_space,
                                 released |-> FALSE, item_size |-> item_size,
                                 subtracted |-> 0]]
                  /\ tpc' = [tpc EXCEPT ![t] = "unzip"]
             ELSE UNCHANGED <<reservations, held, tpc>>
    /\ UNCHANGED <<snap, base_used, max_disk_usage, pipeVars, uploadVars>>
    /\ UNCHANGED otherVars

\* _process_unzip_stage after the reservation: the stage raises, or the copy is
\* verified and release_space(unzip_folder, context.item_size) is called
UnzipVerify(t) ==
    /\ tpc[t] = "unzip"
    /\ \E verified \in BOOLEAN :
         LET after == IF verified
                      THEN release_space(reservations, "unzip_folder", held[t].item_size)
                      ELSE reservations
         IN  /\ reservations' = after
             /\ held' = [held EXCEPT ![t].subtracted =
                            reservations["unzip_folder"] - after["unzip_folder"]]
    /\ tpc' = [tpc EXCEPT ![t] = "finally"]
    /\ UNCHANGED <<snap, base_used, max_disk_usage, pipeVars, uploadVars>>
    /\ UNCHANGED otherVars

\* process_file: the finally block, release_reservation(context.space_reservation),
\* and the return that discards the context
ProcessFileFinally(t) ==
    /\ tpc[t] = "finally"
    /\ reservations' = IF held[t].released THEN reservations
                       ELSE release_space(reservations, held[t].path, held[t].reserved_bytes)
    /\ held' = [held EXCEPT ![t] = None]
    /\ tpc' = [tpc EXCEPT ![t] = "idle"]
    /\ UNCHANGED <<snap, base_used, max_disk_usage, pipeVars, uploadVars>>
    /\ UNCHANGED otherVars

NextUnzip ==
    \E t \in Threads :
        \/ UnzipReserve(t)
        \/ UnzipVerify(t)
        \/ ProcessFileFinally(t)

SpecUnzip == InitLedger /\ [][NextUnzip]_vars

\* C36: the release after verification and the release in the finally block
\* together take from the ledger no more than the bytes of the call's own
\* UNZIP reservation
C36_ReleasesWithinReservation ==
    [][\A t \in Threads :
          (tpc[t] = "finally" /\ tpc'[t] = "idle") =>
             held[t].subtracted + (reservations[held[t].path] - reservations'[held[t].path])
                <= held[t].reserved_bytes]_vars
====
